---------------------------- MODULE Spec2Model ----------------------------
(***************************************************************************)
(* A state-machine model of the yocto deployment tool:                     *)
(*   - the provider bindings (AzureApi, GcpApi) acting on a cloud backend, *)
(*   - the deployment orchestrator (deploy_image, Deployer, DeployOutput,  *)
(*     delete_vm) and the metadata file it maintains,                      *)
(*   - the top-level flows cli.main and deploy_genesis_vm,                 *)
(*   - the attestation handshake of ProxyClient (main thread, probe        *)
(*     thread, proxy process, wall clock).                                 *)
(* The cloud backend, the user at the prompt, the proxy process and the    *)
(* HTTP endpoint are the environment: their answers are nondeterministic.  *)
(***************************************************************************)
EXTENDS Integers, Sequences, FiniteSets, TLC

(***************************************************************************)
(* Bounds of the model (not program constants).                            *)
(***************************************************************************)
\* largest value of the wall clock, in seconds since the proxy was launched
MaxTime == 38
\* largest number of stdout lines the proxy process writes
MaxLines == 2

(***************************************************************************)
(* Program constants.                                                      *)
(***************************************************************************)
\* proxy.py:44  self.process.wait(timeout=5)
GRACE_WINDOW == 5
\* proxy.py:88  time.time() - start_time > 30
MONITOR_TIMEOUT == 30
\* proxy.py:95  time.sleep(1)
MONITOR_SLEEP == 1
\* proxy.py:100 time.sleep(5)
PROBE_DELAY == 5
\* azure/api.py:658 max_retries = 10
MAX_RETRIES == 10

\* cloud_config.py:36-40 CloudProvider
AZURE == "azure"
GCP == "gcp"
Clouds == {AZURE, GCP}

\* inputs: VM names, the artifact (image file name), addresses
Names == {"vm1", "vm2"}
Artifact == "img1"
Ips == {"ip1"}

\* proxy.py:82 the attestation-success marker line, and any other line
MARKER == "Successfully validated attestation document"
OTHER_LINE == "other"
Lines == {MARKER, OTHER_LINE}

VARIABLES
    \* ---- cloud backend and local files (persist across invocations) ----
    vms,          \* VMs that exist: records [cloud, name, disk, auto_delete]
    disks,        \* OS disks that exist: pairs <<cloud, diskName>>
    writable,     \* disks with a write-access grant (SAS) outstanding
    metaFile,     \* deploy_metadata.json: [hasResources, order, resources,
                  \*   artifacts]
    everCreated,  \* history: keys <<cloud, name>> whose create_vm completed
    \* ---- the running invocation (main thread) ----
    flow,         \* which top-level flow runs: none/main/genesis/delete/binding
    cfg,          \* its configuration: [cloud, name]
    pc,           \* position of the main thread
    exc,          \* the exception in flight or that ended the flow
    failedAt,     \* the step that raised it
    ret,          \* return value of the flow
    steps,        \* history: the provider/metadata steps invoked, in order
    metaAtStart,  \* history: metaFile when the invocation began
    diskName,     \* deploy_image local disk_name
    publicIp,     \* deploy_image result / DeployOutput.public_ip
    attempt,      \* get_vm_ip loop variable "attempt" (0 outside the loop)
    measFile,     \* Deployer.measurements_file exists on disk
    proxyObj,     \* Deployer.proxy is set
    \* ---- attestation handshake ----
    proc,         \* proxy OS process: none/running/exited/terminated
    handle,       \* ProxyClient.process is not None
    pipe,         \* unread stdout lines of the proxy
    emitted,      \* number of lines the proxy wrote so far
    now,          \* wall clock
    startTime,    \* _monitor_attestation start_time
    wake,         \* wake-up time of the main thread's current sleep/wait
    probe,        \* probe thread: none/sleep/request/done/failed
    probeWake,    \* wake-up time of the probe thread's sleep
    markerRead,   \* history: the monitor has read the marker line
    startRet,     \* outcome of ProxyClient.start: none/True/raised
    \* ---- network resources of the backend, and the calls on them ----
    rules,        \* firewall rules installed: [cloud, name, protocol, ports,
                  \*   source]
    groups,       \* resource groups / projects that exist: <<cloud, name>>
    ipRes,        \* static public IPs: [cloud, group, name, address]
    dns,          \* addresses of the DNS A record set
    ruleIdx,      \* create_standard_nsg_rules: rules handed to add_nsg_rule
    previousIps,  \* update_dns_record: previous_ips still to be removed
    dnsArgs,      \* update_dns_record: its arguments ip_address, remove_old
    stack,        \* where the calls under way return to (innermost first)
    results,      \* history: what get_or_create_node_ip returned, per call
    \* ---- calls observed on their own ----
    san,          \* a disk name under _sanitize_gcp_name: the raw name, the
                  \*   name after one call and after a second call
    metaOps       \* invocations working on the metadata file: per
                  \*   invocation its operation, position and loaded copy

worldVars == <<vms, disks, writable, metaFile, everCreated>>
invVars == <<flow, cfg, pc, exc, failedAt, ret, steps, metaAtStart,
             diskName, publicIp, attempt, measFile, proxyObj>>
hsVars == <<proc, handle, pipe, emitted, now, startTime, wake, probe,
            probeWake, markerRead, startRet>>
invVars_but_pc == <<flow, cfg, exc, failedAt, ret, steps, metaAtStart,
                    diskName, publicIp, attempt, measFile, proxyObj>>
extVars == <<rules, groups, ipRes, dns, ruleIdx, previousIps, dnsArgs, stack,
             results>>
auxVars == <<san, metaOps>>
vars == <<worldVars, invVars, hsVars, extVars, auxVars>>

NoCfg == [cloud |-> "none", name |-> "none"]

NoDnsArgs == [ip_address |-> "none", remove_old |-> FALSE]

\* no name is being sanitized
NoSan == [stage |-> "none", raw |-> <<>>, once |-> <<>>, twice |-> <<>>]

(***************************************************************************)
(* Metadata file (utils/metadata.py).                                      *)
(***************************************************************************)
\* a partition: the set of records of one provider, at most one per VM name
\* the file without a "resources" key; "order" is the order of the provider
\* keys inside "resources" (a JSON object keeps its insertion order)
EmptyMeta ==
    [hasResources |-> FALSE, order |-> <<>>, resources |-> <<>>,
     artifacts |-> {}]

\* metadata.get("resources", {})
GetResources(m) == IF m.hasResources THEN m.resources ELSE <<>>

\* resources.get(cloud, {})
GetCloudResources(m, cloud) ==
    IF cloud \in DOMAIN GetResources(m) THEN GetResources(m)[cloud] ELSE {}

\* vm_name in cloud_resources
HasRecord(m, cloud, name) ==
    \E r \in GetCloudResources(m, cloud) : r.name = name

RecordOf(m, cloud, name) ==
    CHOOSE r \in GetCloudResources(m, cloud) : r.name = name

\* a function with one more (or replaced) key
Put(f, k, v) == [x \in DOMAIN f \cup {k} |-> IF x = k THEN v ELSE f[x]]

\* Record whose "cloud" field names Azure whatever the provider
RecordAlwaysAzure(cloud, name, artifact, ip) ==
    [name |-> name, artifact |-> artifact, public_ip |-> ip, cloud |-> AZURE]

\* the ResourceRecord written for a deployment; "cloud" is vm.to_dict()
\* ["cloud"], the provider of the deployment
Record(cloud, name, artifact, ip) ==
    [name |-> name, artifact |-> artifact, public_ip |-> ip, cloud |-> cloud]

\* DeployOutput.update_deploy_metadata: the file after the update
UpdatedMeta(m, cloud, name, artifact, ip) ==
    LET order0 == IF m.hasResources THEN m.order ELSE <<AZURE, GCP>>
        res0 == IF m.hasResources THEN m.resources
                ELSE [c \in {AZURE, GCP} |-> {}]
        order1 == IF cloud \in DOMAIN res0 THEN order0
                  ELSE Append(order0, cloud)
        res1 == IF cloud \in DOMAIN res0 THEN res0 ELSE Put(res0, cloud, {})
        part == {r \in res1[cloud] : r.name # name}
                    \cup {Record(cloud, name, artifact, ip)}
    IN [hasResources |-> TRUE, order |-> order1,
        resources |-> Put(res1, cloud, part), artifacts |-> m.artifacts]

\* RemovedMeta that drops the name from the partition of every provider
RemovedMetaEveryProvider(m, name, cloud) ==
    IF ~HasRecord(m, cloud, name) THEN m
    ELSE [hasResources |-> TRUE, order |-> m.order,
          resources |-> [c \in DOMAIN m.resources |->
                            {r \in m.resources[c] : r.name # name}],
          artifacts |-> m.artifacts]

\* remove_vm_from_metadata: the file after the removal
RemovedMeta(m, name, cloud) ==
    IF ~HasRecord(m, cloud, name) THEN m
    ELSE [hasResources |-> TRUE, order |-> m.order,
          resources |-> Put(m.resources, cloud,
                         {r \in m.resources[cloud] : r.name # name}),
          artifacts |-> m.artifacts]

(***************************************************************************)
(* Disk names (cloud_api.py, azure/api.py, gcp/api.py).                    *)
(***************************************************************************)
\* CloudApi.get_raw_disk_name: f"{vm_name}_{artifact}"
GetRawDiskName(name, artifact) == <<"raw", name, artifact>>

\* GcpApi._sanitize_gcp_name, on the names of this model: the sanitized
\* name differs from the raw one ("_" and "." become "-")
SanitizeGcpName(raw) == <<"sanitized", raw[2], raw[3]>>

\* get_disk_name of each binding
GetDiskName(cloud, name, artifact) ==
    IF cloud = GCP THEN SanitizeGcpName(GetRawDiskName(name, artifact))
    ELSE GetRawDiskName(name, artifact)

\* DeleteDiskName that deletes by the raw name in both bindings
DeleteDiskNameRaw(cloud, name, artifact) == GetRawDiskName(name, artifact)

\* the name delete_disk of each binding deletes
DeleteDiskName(cloud, name, artifact) ==
    IF cloud = GCP THEN SanitizeGcpName(GetRawDiskName(name, artifact))
    ELSE GetRawDiskName(name, artifact)

(***************************************************************************)
(* Attestation handshake (proxy.py).                                       *)
(***************************************************************************)
\* StopProc that never terminates the process
StopProcNoTerminate(h, p) == p

\* ProxyClient.stop: terminate the process if the handle is set, clear it
StopProc(h, p) == IF h /\ p = "running" THEN "terminated" ELSE p

\* Deployer.start_proxy_server up to the call of ProxyClient.start
StartProxyServer ==
    /\ pc = "sps"
    /\ proxyObj' = TRUE
    /\ pc' = "popen"
    /\ UNCHANGED <<worldVars, hsVars, flow, cfg, exc, failedAt, ret, steps,
                   metaAtStart, diskName, publicIp, attempt, measFile>>
    /\ UNCHANGED extVars
    /\ UNCHANGED auxVars

\* ProxyClient.start: subprocess.Popen; a missing binary raises
\* FileNotFoundError, which start re-raises after its finally
Popen ==
    /\ pc = "popen"
    /\ \E present \in BOOLEAN :
         IF present
         THEN /\ proc' = "running"
              /\ handle' = TRUE
              /\ now' = 0
              /\ wake' = GRACE_WINDOW
              /\ pc' = "wait"
              /\ UNCHANGED <<exc, failedAt>>
         ELSE /\ exc' = "FileNotFoundError"
              /\ failedAt' = "popen"
              /\ pc' = "start_finally"
              /\ UNCHANGED <<proc, handle, now, wake>>
    /\ UNCHANGED <<worldVars, flow, cfg, ret, steps, metaAtStart, diskName,
                   publicIp, attempt, measFile, proxyObj, pipe, emitted,
                   startTime, probe, probeWake, markerRead, startRet>>
    /\ UNCHANGED extVars
    /\ UNCHANGED auxVars

\* WaitGrace that takes a process that exited in the window for a started one
WaitGraceIgnoresExit ==
    /\ pc = "wait"
    /\ \/ /\ proc # "running"
          /\ pc' = "spawn"
          /\ UNCHANGED <<exc, failedAt>>
       \/ /\ proc = "running"
          /\ now >= wake
          /\ pc' = "spawn"
          /\ UNCHANGED <<exc, failedAt>>
    /\ UNCHANGED <<worldVars, hsVars, flow, cfg, ret, steps, metaAtStart,
                   diskName, publicIp, attempt, measFile, proxyObj>>
    /\ UNCHANGED extVars
    /\ UNCHANGED auxVars

\* ProxyClient.start: self.process.wait(timeout=5); an exit inside the window
\* raises RuntimeError with the captured stderr, a timeout means "started"
WaitGrace ==
    /\ pc = "wait"
    /\ \/ /\ proc # "running"
          /\ exc' = "RuntimeError"
          /\ failedAt' = "wait"
          /\ pc' = "start_finally"
       \/ /\ proc = "running"
          /\ now >= wake
          /\ pc' = "spawn"
          /\ UNCHANGED <<exc, failedAt>>
    /\ UNCHANGED <<worldVars, hsVars, flow, cfg, ret, steps, metaAtStart,
                   diskName, publicIp, attempt, measFile, proxyObj>>
    /\ UNCHANGED extVars
    /\ UNCHANGED auxVars

\* ProxyClient.start: request_thread.start(), then _monitor_attestation
\* takes start_time = time.time()
SpawnProbe ==
    /\ pc = "spawn"
    /\ probe' = "sleep"
    /\ probeWake' = now + PROBE_DELAY
    /\ startTime' = now
    /\ pc' = "mon_read"
    /\ UNCHANGED <<worldVars, flow, cfg, exc, failedAt, ret, steps,
                   metaAtStart, diskName, publicIp, attempt, measFile,
                   proxyObj, proc, handle, pipe, emitted, now, wake,
                   markerRead, startRet>>
    /\ UNCHANGED extVars
    /\ UNCHANGED auxVars

\* what _monitor_attestation does with one line it has read
MonitorLine(output) ==
    IF output = MARKER
    THEN /\ markerRead' = TRUE
         /\ pc' = "mon_join"
         /\ UNCHANGED <<proc, handle, wake, exc, failedAt>>
    ELSE IF now - startTime > MONITOR_TIMEOUT
    THEN /\ proc' = StopProc(handle, proc)
         /\ handle' = FALSE
         /\ exc' = "TimeoutError"
         /\ failedAt' = "monitor"
         /\ pc' = "start_finally"
         /\ UNCHANGED <<markerRead, wake>>
    ELSE /\ wake' = now + MONITOR_SLEEP
         /\ pc' = "mon_sleep"
         /\ UNCHANGED <<proc, handle, markerRead, exc, failedAt>>

\* one iteration of the loop of _monitor_attestation: the blocking readline
\* returns the next line, or "" at end of file (the process is gone)
MonitorRead ==
    /\ pc = "mon_read"
    /\ IF handle
       THEN /\ pipe # <<>> \/ proc # "running"
            /\ IF pipe # <<>>
               THEN MonitorLine(Head(pipe)) /\ pipe' = Tail(pipe)
               ELSE MonitorLine("") /\ pipe' = pipe
       ELSE /\ wake' = now + MONITOR_SLEEP
            /\ pc' = "mon_sleep"
            /\ UNCHANGED <<proc, handle, markerRead, exc, failedAt, pipe>>
    /\ UNCHANGED <<worldVars, flow, cfg, ret, steps, metaAtStart, diskName,
                   publicIp, attempt, measFile, proxyObj, emitted, now,
                   startTime, probe, probeWake, startRet>>
    /\ UNCHANGED extVars
    /\ UNCHANGED auxVars

\* _monitor_attestation: time.sleep(1) at the end of an iteration
MonitorSleep ==
    /\ pc = "mon_sleep"
    /\ now >= wake
    /\ pc' = "mon_read"
    /\ UNCHANGED <<worldVars, hsVars, flow, cfg, exc, failedAt, ret, steps,
                   metaAtStart, diskName, publicIp, attempt, measFile,
                   proxyObj>>
    /\ UNCHANGED extVars
    /\ UNCHANGED auxVars

\* has the probe thread ended (normally or by an exception in the thread)?
ProbeFinished(p) == p \in {"done", "failed"}

\* MonitorJoin without the join: True is returned while the probe may run
MonitorJoinNoWait ==
    /\ pc = "mon_join"
    /\ startRet' = "True"
    /\ pc' = "start_finally"
    /\ UNCHANGED <<worldVars, invVars_but_pc, proc, handle, pipe, emitted,
                   now, startTime, wake, probe, probeWake, markerRead>>
    /\ UNCHANGED extVars
    /\ UNCHANGED auxVars

\* _monitor_attestation: request_thread.join(), then return True
MonitorJoin ==
    /\ pc = "mon_join"
    /\ ProbeFinished(probe)
    /\ startRet' = "True"
    /\ pc' = "start_finally"
    /\ UNCHANGED <<worldVars, invVars_but_pc, proc, handle, pipe, emitted,
                   now, startTime, wake, probe, probeWake, markerRead>>
    /\ UNCHANGED extVars
    /\ UNCHANGED auxVars

\* ProxyClient.start: the finally clause runs stop(); then start returns True
\* to start_proxy_server (which returns to main) or the exception propagates
StartFinally ==
    /\ pc = "start_finally"
    /\ proc' = StopProc(handle, proc)
    /\ handle' = FALSE
    /\ startRet' = IF exc = "none" THEN startRet ELSE "raised"
    /\ pc' = "main_finally"
    /\ UNCHANGED <<worldVars, invVars_but_pc, pipe, emitted, now, startTime,
                   wake, probe, probeWake, markerRead>>
    /\ UNCHANGED extVars
    /\ UNCHANGED auxVars

\* MainFinally that skips the cleanup
MainFinallyNoCleanup ==
    /\ pc = "main_finally"
    /\ ret' = IF exc = "none" THEN "0" ELSE "1"
    /\ proc' = IF proxyObj THEN StopProc(handle, proc) ELSE proc
    /\ handle' = IF proxyObj THEN FALSE ELSE handle
    /\ measFile' = measFile
    /\ pc' = "done"
    /\ UNCHANGED <<worldVars, flow, cfg, exc, failedAt, steps, metaAtStart,
                   diskName, publicIp, attempt, proxyObj, pipe, emitted, now,
                   startTime, wake, probe, probeWake, markerRead, startRet>>
    /\ UNCHANGED extVars
    /\ UNCHANGED auxVars

\* cli.main: return 0, or the except clause's return 1; then the finally
\* clause runs Deployer.cleanup (stop the proxy, remove the measurements file)
MainFinally ==
    /\ pc = "main_finally"
    /\ ret' = IF exc = "none" THEN "0" ELSE "1"
    /\ proc' = IF proxyObj THEN StopProc(handle, proc) ELSE proc
    /\ handle' = IF proxyObj THEN FALSE ELSE handle
    /\ measFile' = FALSE
    /\ pc' = "done"
    /\ UNCHANGED <<worldVars, flow, cfg, exc, failedAt, steps, metaAtStart,
                   diskName, publicIp, attempt, proxyObj, pipe, emitted, now,
                   startTime, wake, probe, probeWake, markerRead, startRet>>
    /\ UNCHANGED extVars
    /\ UNCHANGED auxVars

\* perform_http_request: time.sleep(5) is over, requests.get is issued
ProbeWake ==
    /\ probe = "sleep"
    /\ now >= probeWake
    /\ probe' = "request"
    /\ UNCHANGED <<worldVars, invVars, proc, handle, pipe, emitted, now,
                   startTime, wake, probeWake, markerRead, startRet>>
    /\ UNCHANGED extVars
    /\ UNCHANGED auxVars

\* perform_http_request: the request ends; a RequestException becomes a
\* ConnectionError raised in the probe thread, which ends the thread.
\* Only a running proxy can answer the request.
ProbeComplete ==
    /\ probe = "request"
    /\ \E ok \in BOOLEAN :
         /\ ok => proc = "running"
         /\ probe' = IF ok THEN "done" ELSE "failed"
    /\ UNCHANGED <<worldVars, invVars, proc, handle, pipe, emitted, now,
                   startTime, wake, probeWake, markerRead, startRet>>
    /\ UNCHANGED extVars
    /\ UNCHANGED auxVars

\* the proxy process writes a line to its stdout
ProxyEmit ==
    /\ proc = "running"
    /\ emitted < MaxLines
    /\ \E l \in Lines : pipe' = Append(pipe, l)
    /\ emitted' = emitted + 1
    /\ UNCHANGED <<worldVars, invVars, proc, handle, now, startTime, wake,
                   probe, probeWake, markerRead, startRet>>
    /\ UNCHANGED extVars
    /\ UNCHANGED auxVars

\* the proxy process exits by itself
ProxyExit ==
    /\ proc = "running"
    /\ proc' = "exited"
    /\ UNCHANGED <<worldVars, invVars, handle, pipe, emitted, now, startTime,
                   wake, probe, probeWake, markerRead, startRet>>
    /\ UNCHANGED extVars
    /\ UNCHANGED auxVars

\* the main thread can take a step now (it is neither blocked nor asleep)
MainReady ==
    \/ pc \in {"sps", "popen", "spawn", "start_finally", "main_finally"}
    \/ pc = "wait" /\ (proc # "running" \/ now >= wake)
    \/ pc = "mon_read" /\ (~handle \/ pipe # <<>> \/ proc # "running")
    \/ pc = "mon_sleep" /\ now >= wake
    \/ pc = "mon_join" /\ ProbeFinished(probe)

\* a thread is waiting for the clock
TimeMatters ==
    \/ pc \in {"wait", "mon_read", "mon_sleep"}
    \/ probe = "sleep"

\* one second passes; time advances only when no thread can run
Tick ==
    /\ TimeMatters
    /\ ~MainReady
    /\ ~(probe = "sleep" /\ now >= probeWake)
    /\ now < MaxTime
    /\ now' = now + 1
    /\ UNCHANGED <<worldVars, invVars, proc, handle, pipe, emitted,
                   startTime, wake, probe, probeWake, markerRead, startRet>>
    /\ UNCHANGED extVars
    /\ UNCHANGED auxVars

(***************************************************************************)
(* Exceptions and frames of the main thread.                               *)
(***************************************************************************)
\* an exception e raised at step "at": cli.main catches it (except, then
\* finally); deploy_genesis_vm and the delete flows let it propagate
Abort(e, at) ==
    /\ exc' = e
    /\ failedAt' = at
    /\ pc' = IF flow = "main" THEN "main_finally" ELSE "done"
    /\ ret' = IF flow = "main" THEN ret ELSE "raised"

Goto(next) ==
    /\ pc' = next
    /\ UNCHANGED <<exc, failedAt, ret>>

\* a flow returns value v
Return(v) ==
    /\ pc' = "done"
    /\ ret' = v
    /\ UNCHANGED <<exc, failedAt>>

invFixed == <<flow, cfg, metaAtStart, measFile, proxyObj>>

\* the process ends; the next invocation is a fresh process: no locals, no
\* handshake, its own measurements file
ProcessExit ==
    /\ pc = "done"
    /\ pc' = "idle"
    /\ flow' = "none"
    /\ cfg' = NoCfg
    /\ measFile' = FALSE
    /\ UNCHANGED worldVars
    /\ exc' = "none"
    /\ failedAt' = "none"
    /\ ret' = "none"
    /\ steps' = <<>>
    /\ metaAtStart' = metaFile
    /\ diskName' = <<>>
    /\ publicIp' = "none"
    /\ attempt' = 0
    /\ proxyObj' = FALSE
    /\ proc' = "none"
    /\ handle' = FALSE
    /\ pipe' = <<>>
    /\ emitted' = 0
    /\ now' = 0
    /\ startTime' = 0
    /\ wake' = 0
    /\ probe' = "none"
    /\ probeWake' = 0
    /\ markerRead' = FALSE
    /\ startRet' = "none"
    /\ UNCHANGED extVars
    /\ UNCHANGED auxVars

(***************************************************************************)
(* Top-level flows (cli.py, genesis_deploy.py).                            *)
(***************************************************************************)
\* cli.main with a deploy configuration: Deployer(...) writes the
\* measurements file, then the try block is entered
StartMain ==
    /\ pc = "idle"
    /\ \E c \in Clouds, n \in Names : cfg' = [cloud |-> c, name |-> n]
    /\ flow' = "main"
    /\ measFile' = TRUE
    /\ pc' = "di_check"
    /\ UNCHANGED <<worldVars, hsVars, exc, failedAt, ret, steps, metaAtStart,
                   diskName, publicIp, attempt, proxyObj>>
    /\ UNCHANGED extVars
    /\ UNCHANGED auxVars

\* deploy_genesis_vm from the construction of the Deployer on
StartGenesis ==
    /\ pc = "idle"
    /\ \E c \in Clouds, n \in Names : cfg' = [cloud |-> c, name |-> n]
    /\ flow' = "genesis"
    /\ measFile' = TRUE
    /\ pc' = "di_check"
    /\ UNCHANGED <<worldVars, hsVars, exc, failedAt, ret, steps, metaAtStart,
                   diskName, publicIp, attempt, proxyObj>>
    /\ UNCHANGED extVars
    /\ UNCHANGED auxVars

\* cli.main with --delete-vm: deployment.deploy.delete_vm(vm_name, home)
StartDelete ==
    /\ pc = "idle"
    /\ \E n \in Names : cfg' = [cloud |-> "none", name |-> n]
    /\ flow' = "delete"
    /\ pc' = "od_scan"
    /\ UNCHANGED <<worldVars, hsVars, exc, failedAt, ret, steps, metaAtStart,
                   diskName, publicIp, attempt, proxyObj, measFile>>
    /\ UNCHANGED extVars
    /\ UNCHANGED auxVars

\* a direct call of a binding's delete_vm(vm_name, ...)
StartBindingDelete ==
    /\ pc = "idle"
    /\ \E c \in Clouds, n \in Names : cfg' = [cloud |-> c, name |-> n]
    /\ flow' = "binding"
    /\ pc' = "bd_lookup"
    /\ UNCHANGED <<worldVars, hsVars, exc, failedAt, ret, steps, metaAtStart,
                   diskName, publicIp, attempt, proxyObj, measFile>>
    /\ UNCHANGED extVars
    /\ UNCHANGED auxVars

(***************************************************************************)
(* deploy_image (deployment/deploy.py) and the binding operations it calls *)
(***************************************************************************)
ThisDisk == GetDiskName(cfg.cloud, cfg.name, Artifact)

\* deploy_image: image_path.exists(), else FileNotFoundError
CheckImage ==
    /\ pc = "di_check"
    /\ \E exists \in BOOLEAN :
         IF exists THEN Goto("di_disk_exists")
         ELSE Abort("FileNotFoundError", "image_path")
    /\ UNCHANGED <<worldVars, hsVars, invFixed, steps, diskName, publicIp,
                   attempt>>
    /\ UNCHANGED extVars
    /\ UNCHANGED auxVars

\* disk_exists of each binding, given whether the backend call fails:
\* AzureApi lets the failure of run_command propagate, GcpApi answers False
\* on any exception
DiskExistsResult(cloud, present, fault) ==
    IF fault THEN (IF cloud = GCP THEN "False" ELSE "raise")
    ELSE IF present THEN "True" ELSE "False"

\* DiskExists that goes on to create_disk whatever disk_exists answered
DiskExistsAlwaysCreate ==
    /\ pc = "di_disk_exists"
    /\ steps' = Append(steps, "disk_exists")
    /\ \E fault \in BOOLEAN :
         LET r == DiskExistsResult(cfg.cloud, <<cfg.cloud, ThisDisk>> \in disks,
                                   fault)
         IN  CASE r = "raise" ->
                    Abort("CalledProcessError", "disk_exists")
                    /\ UNCHANGED diskName
               [] r = "True" ->
                    Goto("di_create_disk") /\ diskName' = ThisDisk
               [] r = "False" ->
                    Goto("di_create_disk") /\ UNCHANGED diskName
    /\ UNCHANGED <<worldVars, hsVars, invFixed, publicIp, attempt>>
    /\ UNCHANGED extVars
    /\ UNCHANGED auxVars

\* deploy_image: cloud_api.disk_exists; when true, disk_name = get_disk_name
DiskExists ==
    /\ pc = "di_disk_exists"
    /\ steps' = Append(steps, "disk_exists")
    /\ \E fault \in BOOLEAN :
         LET r == DiskExistsResult(cfg.cloud, <<cfg.cloud, ThisDisk>> \in disks,
                                   fault)
         IN  CASE r = "raise" ->
                    Abort("CalledProcessError", "disk_exists")
                    /\ UNCHANGED diskName
               [] r = "True" ->
                    Goto("di_upload") /\ diskName' = ThisDisk
               [] r = "False" ->
                    Goto("di_create_disk") /\ UNCHANGED diskName
    /\ UNCHANGED <<worldVars, hsVars, invFixed, publicIp, attempt>>
    /\ UNCHANGED extVars
    /\ UNCHANGED auxVars

\* deploy_image: disk_name = cloud_api.create_disk(...); the backend refuses
\* to create a disk whose name is taken
CreateDisk ==
    /\ pc = "di_create_disk"
    /\ steps' = Append(steps, "create_disk")
    /\ \E ok \in BOOLEAN :
         IF ok /\ <<cfg.cloud, ThisDisk>> \notin disks
         THEN /\ disks' = disks \cup {<<cfg.cloud, ThisDisk>>}
              /\ diskName' = ThisDisk
              /\ Goto("di_upload")
         ELSE /\ Abort("ProviderError", "create_disk")
              /\ UNCHANGED <<disks, diskName>>
    /\ UNCHANGED <<vms, writable, metaFile, everCreated, hsVars, invFixed,
                   publicIp, attempt>>
    /\ UNCHANGED extVars
    /\ UNCHANGED auxVars

\* AzureApi.upload_disk, first phase: _grant_disk_access
\* GcpApi.upload_disk only logs (the bytes were uploaded by create_disk)
UploadGrant ==
    /\ pc = "di_upload"
    /\ IF cfg.cloud = GCP
       THEN /\ steps' = Append(steps, "upload_disk")
            /\ Goto("di_nsg")
            /\ UNCHANGED writable
       ELSE /\ steps' = steps \o <<"upload_disk", "grant">>
            /\ \E ok \in BOOLEAN :
                 IF ok /\ <<cfg.cloud, ThisDisk>> \in disks
                 THEN /\ writable' = writable \cup {<<cfg.cloud, ThisDisk>>}
                      /\ Goto("up_copy")
                 ELSE /\ Abort("CalledProcessError", "grant")
                      /\ UNCHANGED writable
    /\ UNCHANGED <<vms, disks, metaFile, everCreated, hsVars, invFixed,
                   diskName, publicIp, attempt>>
    /\ UNCHANGED extVars
    /\ UNCHANGED auxVars

\* AzureApi.upload_disk, second phase: _copy_disk (azcopy)
UploadCopy ==
    /\ pc = "up_copy"
    /\ steps' = Append(steps, "copy")
    /\ \E ok \in BOOLEAN :
         IF ok THEN Goto("up_revoke")
         ELSE Abort("CalledProcessError", "copy")
    /\ UNCHANGED <<worldVars, hsVars, invFixed, diskName, publicIp, attempt>>
    /\ UNCHANGED extVars
    /\ UNCHANGED auxVars

\* AzureApi.upload_disk, third phase: _revoke_disk_access
UploadRevoke ==
    /\ pc = "up_revoke"
    /\ steps' = Append(steps, "revoke")
    /\ \E ok \in BOOLEAN :
         IF ok
         THEN /\ writable' = writable \ {<<cfg.cloud, ThisDisk>>}
              /\ Goto("di_nsg")
         ELSE /\ Abort("CalledProcessError", "revoke")
              /\ UNCHANGED writable
    /\ UNCHANGED <<vms, disks, metaFile, everCreated, hsVars, invFixed,
                   diskName, publicIp, attempt>>
    /\ UNCHANGED extVars
    /\ UNCHANGED auxVars

\* CreateNsg that goes straight on to create_vm
CreateNsgSkipsRules ==
    /\ pc = "di_nsg"
    /\ steps' = Append(steps, "create_nsg")
    /\ \E ok \in BOOLEAN :
         IF ok \/ cfg.cloud = GCP THEN Goto("di_create_vm")
         ELSE Abort("CalledProcessError", "create_nsg")
    /\ UNCHANGED <<worldVars, hsVars, invFixed, diskName, publicIp, attempt>>
    /\ UNCHANGED extVars
    /\ UNCHANGED auxVars

\* create_nsg: AzureApi runs "az network nsg create", GcpApi only logs
CreateNsg ==
    /\ pc = "di_nsg"
    /\ steps' = Append(steps, "create_nsg")
    /\ \E ok \in BOOLEAN :
         IF ok \/ cfg.cloud = GCP THEN Goto("di_rules")
         ELSE Abort("CalledProcessError", "create_nsg")
    /\ UNCHANGED <<worldVars, hsVars, invFixed, diskName, publicIp, attempt>>
    /\ UNCHANGED extVars
    /\ UNCHANGED auxVars

\* create_standard_nsg_rules: AzureApi.add_nsg_rule lets a failed command
\* propagate, GcpApi.add_nsg_rule logs a warning on any exception
CreateStandardNsgRules ==
    /\ pc = "di_rules"
    /\ steps' = Append(steps, "create_standard_nsg_rules")
    /\ \E ok \in BOOLEAN :
         IF ok \/ cfg.cloud = GCP THEN Goto("di_create_vm")
         ELSE Abort("CalledProcessError", "create_standard_nsg_rules")
    /\ UNCHANGED <<worldVars, hsVars, invFixed, diskName, publicIp, attempt>>
    /\ UNCHANGED extVars
    /\ UNCHANGED auxVars

\* does a VM with this key exist in the backend?
VmExists(cloud, name) == \E v \in vms : v.cloud = cloud /\ v.name = name

\* the VM create_vm boots: GcpApi attaches the boot disk with
\* auto_delete = True, AzureApi attaches it with --attach-os-disk
NewVm(cloud, name, disk) ==
    [cloud |-> cloud, name |-> name, disk |-> disk,
     auto_delete |-> (cloud = GCP)]

\* CreateVm that does not notice a failed backend call
CreateVmIgnoreFailure ==
    /\ pc = "di_create_vm"
    /\ steps' = Append(steps, "create_vm")
    /\ \E ok \in BOOLEAN :
         IF /\ ok
            /\ <<cfg.cloud, diskName>> \in disks
            /\ ~VmExists(cfg.cloud, cfg.name)
         THEN /\ vms' = vms \cup {NewVm(cfg.cloud, cfg.name, diskName)}
              /\ everCreated' = everCreated \cup {<<cfg.cloud, cfg.name>>}
              /\ Goto("di_get_ip")
         ELSE /\ Goto("di_get_ip")
              /\ UNCHANGED <<vms, everCreated>>
    /\ UNCHANGED <<disks, writable, metaFile, hsVars, invFixed, diskName,
                   publicIp, attempt>>
    /\ UNCHANGED extVars
    /\ UNCHANGED auxVars

\* create_vm: boots the VM from disk_name; the backend needs the disk and
\* refuses a VM name that is taken
CreateVm ==
    /\ pc = "di_create_vm"
    /\ steps' = Append(steps, "create_vm")
    /\ \E ok \in BOOLEAN :
         IF /\ ok
            /\ <<cfg.cloud, diskName>> \in disks
            /\ ~VmExists(cfg.cloud, cfg.name)
         THEN /\ vms' = vms \cup {NewVm(cfg.cloud, cfg.name, diskName)}
              /\ everCreated' = everCreated \cup {<<cfg.cloud, cfg.name>>}
              /\ Goto("di_get_ip")
         ELSE /\ Abort("ProviderError", "create_vm")
              /\ UNCHANGED <<vms, everCreated>>
    /\ UNCHANGED <<disks, writable, metaFile, hsVars, invFixed, diskName,
                   publicIp, attempt>>
    /\ UNCHANGED extVars
    /\ UNCHANGED auxVars

\* what the backend can answer to one address lookup: a failed call, no VM
\* info yet, VM info without the address field yet, or an address (the
\* address can be empty)
Answers == {"error", "empty", "nofield", ""} \cup Ips

\* AzureLookup that allows one attempt too many
AzureLookupOneMore(att, ans) ==
    IF ans = "error" THEN "raise"
    ELSE IF ans \in {"empty", "nofield"}
    THEN (IF att < MAX_RETRIES THEN "retry" ELSE "raise")
    ELSE "return"

\* AzureApi.get_vm_ip, one iteration of "for attempt in range(max_retries)":
\* is the answer returned, retried after a delay, or raised?
AzureLookup(att, ans) ==
    IF ans = "error" THEN "raise"
    ELSE IF ans \in {"empty", "nofield"}
    THEN (IF att < MAX_RETRIES - 1 THEN "retry" ELSE "raise")
    ELSE "return"

\* GcpApi.get_vm_ip: a single lookup; a failed call, missing interfaces or
\* access configs, or an empty nat_ip raise at once
GcpLookup(att, ans) ==
    IF ans \in {"error", "empty", "nofield", ""} THEN "raise" ELSE "return"

GetVmIpLookup(cloud, att, ans) ==
    IF cloud = GCP THEN GcpLookup(att, ans) ELSE AzureLookup(att, ans)

\* GetVmIp that records the deployment before the address is known
GetVmIpRecording ==
    /\ pc = "di_get_ip"
    /\ steps' = IF attempt = 0 THEN Append(steps, "get_vm_ip") ELSE steps
    /\ metaFile' = UpdatedMeta(metaFile, cfg.cloud, cfg.name, Artifact, "")
    /\ \E ans \in Answers :
         LET r == GetVmIpLookup(cfg.cloud, attempt, ans)
         IN  CASE r = "raise" ->
                    /\ Abort("RuntimeError", "get_vm_ip")
                    /\ attempt' = 0
                    /\ UNCHANGED publicIp
               [] r = "retry" ->
                    /\ Goto("di_get_ip")
                    /\ attempt' = attempt + 1
                    /\ UNCHANGED publicIp
               [] r = "return" ->
                    /\ Goto("deploy_ret")
                    /\ attempt' = 0
                    /\ publicIp' = ans
    /\ UNCHANGED <<vms, disks, writable, everCreated, hsVars, invFixed,
                   diskName>>
    /\ UNCHANGED extVars
    /\ UNCHANGED auxVars

\* deploy_image: return cloud_api.get_vm_ip(...); one lookup per step
GetVmIp ==
    /\ pc = "di_get_ip"
    /\ steps' = IF attempt = 0 THEN Append(steps, "get_vm_ip") ELSE steps
    /\ \E ans \in Answers :
         LET r == GetVmIpLookup(cfg.cloud, attempt, ans)
         IN  CASE r = "raise" ->
                    /\ Abort(IF cfg.cloud = GCP /\ ans # "error"
                             THEN "ValueError" ELSE "RuntimeError",
                             "get_vm_ip")
                    /\ attempt' = 0
                    /\ UNCHANGED publicIp
               [] r = "retry" ->
                    /\ Goto("di_get_ip")
                    /\ attempt' = attempt + 1
                    /\ UNCHANGED publicIp
               [] r = "return" ->
                    /\ Goto("deploy_ret")
                    /\ attempt' = 0
                    /\ publicIp' = ans
    /\ UNCHANGED <<worldVars, hsVars, invFixed, diskName>>
    /\ UNCHANGED extVars
    /\ UNCHANGED auxVars

\* Deployer.deploy: an empty public_ip raises RuntimeError, otherwise the
\* DeployOutput is returned
DeployReturn ==
    /\ pc = "deploy_ret"
    /\ IF publicIp = ""
       THEN Abort("RuntimeError", "deploy")
       ELSE Goto("update_meta")
    /\ UNCHANGED <<worldVars, hsVars, invFixed, steps, diskName, publicIp,
                   attempt>>
    /\ UNCHANGED extVars
    /\ UNCHANGED auxVars

\* DeployOutput.update_deploy_metadata, called by cli.main and by
\* deploy_genesis_vm after deployer.deploy() has returned
UpdateDeployMetadata ==
    /\ pc = "update_meta"
    /\ steps' = Append(steps, "update_deploy_metadata")
    /\ metaFile' = UpdatedMeta(metaFile, cfg.cloud, cfg.name, Artifact,
                               publicIp)
    /\ IF flow = "main" THEN Goto("sps") ELSE Return("None")
    /\ UNCHANGED <<vms, disks, writable, everCreated, hsVars, invFixed,
                   diskName, publicIp, attempt>>
    /\ UNCHANGED extVars
    /\ UNCHANGED auxVars

(***************************************************************************)
(* Deletion (deployment/deploy.py delete_vm, the bindings' delete_vm).     *)
(***************************************************************************)
\* the provider keys that hold vm_name, in the order of the file
MatchingPartitions(m, name) ==
    SelectSeq(m.order, LAMBDA c : HasRecord(m, c, name))

\* deployment.deploy.delete_vm: scan the partitions, take the first that
\* holds vm_name, delegate to the binding named in the record
OrchestratorScan ==
    /\ pc = "od_scan"
    /\ LET found == IF metaFile.hasResources
                    THEN MatchingPartitions(metaFile, cfg.name) ELSE <<>>
       IN  IF found = <<>>
           THEN Return("False") /\ UNCHANGED cfg
           ELSE /\ cfg' = [cloud |-> RecordOf(metaFile, Head(found),
                                               cfg.name).cloud,
                           name |-> cfg.name]
                /\ Goto("bd_lookup")
    /\ UNCHANGED <<worldVars, hsVars, flow, metaAtStart, measFile, proxyObj,
                   steps, diskName, publicIp, attempt>>
    /\ UNCHANGED extVars
    /\ UNCHANGED auxVars

\* delete_vm of a binding: look vm_name up in this binding's partition
BindingLookup ==
    /\ pc = "bd_lookup"
    /\ steps' = Append(steps, "lookup")
    /\ IF HasRecord(metaFile, cfg.cloud, cfg.name)
       THEN Goto("bd_confirm")
       ELSE Return("False")
    /\ UNCHANGED <<worldVars, hsVars, invFixed, diskName, publicIp, attempt>>
    /\ UNCHANGED extVars
    /\ UNCHANGED auxVars

\* cloud_parser.confirm: returns True on "y", raises ValueError otherwise
Confirm ==
    /\ pc = "bd_confirm"
    /\ steps' = Append(steps, "confirm")
    /\ \E answer \in {"y", "n"} :
         IF answer = "y" THEN Goto("bd_delete_vm")
         ELSE Abort("ValueError", "confirm")
    /\ UNCHANGED <<worldVars, hsVars, invFixed, diskName, publicIp, attempt>>
    /\ UNCHANGED extVars
    /\ UNCHANGED auxVars

\* the backend after a VM is deleted: the VM is gone, and so is a boot
\* disk that was attached with auto_delete
VmsAfterDelete(cloud, name) ==
    {v \in vms : ~(v.cloud = cloud /\ v.name = name)}

DisksAfterVmDelete(cloud, name) ==
    disks \ {<<v.cloud, v.disk>> : v \in
                {w \in vms : w.cloud = cloud /\ w.name = name
                                /\ w.auto_delete}}

\* DeleteVmStep that does not check the outcome of the backend call
DeleteVmStepIgnoreFailure ==
    /\ pc = "bd_delete_vm"
    /\ steps' = Append(steps, "delete_vm")
    /\ \E ok \in BOOLEAN :
         IF ok /\ VmExists(cfg.cloud, cfg.name)
         THEN /\ vms' = VmsAfterDelete(cfg.cloud, cfg.name)
              /\ disks' = DisksAfterVmDelete(cfg.cloud, cfg.name)
              /\ Goto("bd_delete_disk")
         ELSE /\ Goto("bd_delete_disk")
              /\ UNCHANGED <<vms, disks>>
    /\ UNCHANGED <<writable, metaFile, everCreated, hsVars, invFixed,
                   diskName, publicIp, attempt>>
    /\ UNCHANGED extVars
    /\ UNCHANGED auxVars

\* delete_vm of a binding: delete the VM; both bindings log the error and
\* return False when the backend call fails
DeleteVmStep ==
    /\ pc = "bd_delete_vm"
    /\ steps' = Append(steps, "delete_vm")
    /\ \E ok \in BOOLEAN :
         IF ok /\ VmExists(cfg.cloud, cfg.name)
         THEN /\ vms' = VmsAfterDelete(cfg.cloud, cfg.name)
              /\ disks' = DisksAfterVmDelete(cfg.cloud, cfg.name)
              /\ Goto("bd_delete_disk")
         ELSE /\ Return("False")
              /\ UNCHANGED <<vms, disks>>
    /\ UNCHANGED <<writable, metaFile, everCreated, hsVars, invFixed,
                   diskName, publicIp, attempt>>
    /\ UNCHANGED extVars
    /\ UNCHANGED auxVars

\* delete_vm of a binding: cls.delete_disk(...); a missing disk or a failed
\* backend call raises out of delete_vm
DeleteDiskStep ==
    /\ pc = "bd_delete_disk"
    /\ steps' = Append(steps, "delete_disk")
    /\ LET d == <<cfg.cloud, DeleteDiskName(cfg.cloud, cfg.name, Artifact)>>
       IN  IF d \notin disks
           THEN Abort("NotFound", "delete_disk") /\ UNCHANGED disks
           ELSE \E ok \in BOOLEAN :
                  IF ok
                  THEN disks' = disks \ {d} /\ Goto("bd_remove_meta")
                  ELSE Abort("ProviderError", "delete_disk")
                       /\ UNCHANGED disks
    /\ UNCHANGED <<vms, writable, metaFile, everCreated, hsVars, invFixed,
                   diskName, publicIp, attempt>>
    /\ UNCHANGED extVars
    /\ UNCHANGED auxVars

\* delete_vm of a binding: remove_vm_from_metadata, then return True
RemoveMeta ==
    /\ pc = "bd_remove_meta"
    /\ steps' = Append(steps, "remove_vm_from_metadata")
    /\ metaFile' = RemovedMeta(metaFile, cfg.name, cfg.cloud)
    /\ Return("True")
    /\ UNCHANGED <<vms, disks, writable, everCreated, hsVars, invFixed,
                   diskName, publicIp, attempt>>
    /\ UNCHANGED extVars
    /\ UNCHANGED auxVars

(***************************************************************************)
(* The specification.                                                      *)
(***************************************************************************)
\* no firewall rule, resource group, public IP or DNS address yet, and no
\* call on them under way
NetIdle ==
    /\ rules = {}
    /\ groups = {}
    /\ ipRes = {}
    /\ dns = {}
    /\ ruleIdx = 0
    /\ previousIps = <<>>
    /\ dnsArgs = NoDnsArgs
    /\ stack = <<>>
    /\ results = <<>>

\* and no call is observed on its own
ExtIdle ==
    /\ NetIdle
    /\ san = NoSan
    /\ metaOps = <<>>

\* no invocation is running: no locals, no handshake
InvocationIdle ==
    /\ flow = "none"
    /\ cfg = NoCfg
    /\ pc = "idle"
    /\ exc = "none"
    /\ failedAt = "none"
    /\ ret = "none"
    /\ steps = <<>>
    /\ metaAtStart = metaFile
    /\ diskName = <<>>
    /\ publicIp = "none"
    /\ attempt = 0
    /\ measFile = FALSE
    /\ proxyObj = FALSE
    /\ proc = "none"
    /\ handle = FALSE
    /\ pipe = <<>>
    /\ emitted = 0
    /\ now = 0
    /\ startTime = 0
    /\ wake = 0
    /\ probe = "none"
    /\ probeWake = 0
    /\ markerRead = FALSE
    /\ startRet = "none"

Idle == ExtIdle /\ InvocationIdle

\* a fresh backend and a metadata file without resources
Init ==
    /\ vms = {}
    /\ disks = {}
    /\ writable = {}
    /\ metaFile = EmptyMeta
    /\ everCreated = {}
    /\ Idle

\* the world after deploy_genesis_vm has deployed (cloud, name) successfully
DeployedWorld(cloud, name) ==
    LET d == GetDiskName(cloud, name, Artifact)
    IN  [vms |-> {NewVm(cloud, name, d)},
         disks |-> {<<cloud, d>>},
         metaFile |-> UpdatedMeta(EmptyMeta, cloud, name, Artifact, "ip1"),
         everCreated |-> {<<cloud, name>>}]

FreshWorld ==
    [vms |-> {}, disks |-> {}, metaFile |-> EmptyMeta, everCreated |-> {}]

\* a disk left behind by a deployment that failed after create_disk
LeftoverDiskWorld(cloud, name) ==
    [vms |-> {}, disks |-> {<<cloud, GetDiskName(cloud, name, Artifact)>>},
     metaFile |-> EmptyMeta, everCreated |-> {}]

MainWorlds ==
    {FreshWorld} \cup {DeployedWorld(c, "vm1") : c \in Clouds}
                 \cup {LeftoverDiskWorld(c, "vm1") : c \in Clouds}

MainInit ==
    /\ \E w \in MainWorlds :
         /\ vms = w.vms
         /\ disks = w.disks
         /\ metaFile = w.metaFile
         /\ everCreated = w.everCreated
    /\ writable = {}
    /\ Idle

\* the steps of deploy_image, Deployer.deploy and update_deploy_metadata
DeploySteps ==
    \/ CheckImage
    \/ DiskExists
    \/ CreateDisk
    \/ UploadGrant
    \/ UploadCopy
    \/ UploadRevoke
    \/ CreateNsg
    \/ CreateStandardNsgRules
    \/ CreateVm
    \/ GetVmIp
    \/ DeployReturn
    \/ UpdateDeployMetadata

\* Any sequence of genesis deployments and deletions, one process after the
\* other, against the same backend and the same metadata file.
Next ==
    \/ StartGenesis
    \/ StartDelete
    \/ StartBindingDelete
    \/ ProcessExit
    \/ CheckImage
    \/ DiskExists
    \/ CreateDisk
    \/ UploadGrant
    \/ UploadCopy
    \/ UploadRevoke
    \/ CreateNsg
    \/ CreateStandardNsgRules
    \/ CreateVm
    \/ GetVmIp
    \/ DeployReturn
    \/ UpdateDeployMetadata
    \/ OrchestratorScan
    \/ BindingLookup
    \/ Confirm
    \/ DeleteVmStep
    \/ DeleteDiskStep
    \/ RemoveMeta

Spec == Init /\ [][Next]_vars

\* One invocation of a top-level deploy flow (cli.main with its attestation
\* handshake, or deploy_genesis_vm), started in a world that earlier
\* invocations can have left behind.
MainNext ==
    \/ StartMain
    \/ StartGenesis
    \/ CheckImage
    \/ DiskExists
    \/ CreateDisk
    \/ UploadGrant
    \/ UploadCopy
    \/ UploadRevoke
    \/ CreateNsg
    \/ CreateStandardNsgRules
    \/ CreateVm
    \/ GetVmIp
    \/ DeployReturn
    \/ UpdateDeployMetadata
    \/ StartProxyServer
    \/ Popen
    \/ WaitGrace
    \/ SpawnProbe
    \/ MonitorRead
    \/ MonitorSleep
    \/ MonitorJoin
    \/ StartFinally
    \/ MainFinally
    \/ ProbeWake
    \/ ProbeComplete
    \/ ProxyEmit
    \/ ProxyExit
    \/ Tick

MainSpec == MainInit /\ [][MainNext]_vars

\* The attestation handshake alone: cli.main has deployed (AZURE, "vm1") and
\* recorded it, and now calls deployer.start_proxy_server.
HandshakeInit ==
    /\ ExtIdle
    /\ \E w \in {DeployedWorld(AZURE, "vm1")} :
         /\ vms = w.vms
         /\ disks = w.disks
         /\ metaFile = w.metaFile
         /\ everCreated = w.everCreated
    /\ writable = {}
    /\ flow = "main"
    /\ cfg = [cloud |-> AZURE, name |-> "vm1"]
    /\ pc = "sps"
    /\ exc = "none"
    /\ failedAt = "none"
    /\ ret = "none"
    /\ steps = <<"disk_exists", "create_disk", "upload_disk", "grant", "copy",
                 "revoke", "create_nsg", "create_standard_nsg_rules",
                 "create_vm", "get_vm_ip", "update_deploy_metadata">>
    /\ metaAtStart = EmptyMeta
    /\ diskName = GetDiskName(AZURE, "vm1", Artifact)
    /\ publicIp = "ip1"
    /\ attempt = 0
    /\ measFile = TRUE
    /\ proxyObj = FALSE
    /\ proc = "none"
    /\ handle = FALSE
    /\ pipe = <<>>
    /\ emitted = 0
    /\ now = 0
    /\ startTime = 0
    /\ wake = 0
    /\ probe = "none"
    /\ probeWake = 0
    /\ markerRead = FALSE
    /\ startRet = "none"

HandshakeNext ==
    \/ StartProxyServer
    \/ Popen
    \/ WaitGrace
    \/ SpawnProbe
    \/ MonitorRead
    \/ MonitorSleep
    \/ MonitorJoin
    \/ StartFinally
    \/ MainFinally
    \/ ProbeWake
    \/ ProbeComplete
    \/ ProxyEmit
    \/ ProxyExit
    \/ Tick

HandshakeSpec == HandshakeInit /\ [][HandshakeNext]_vars

\* is the main thread inside the try block of ProxyClient.start?
InStart ==
    pc \in {"popen", "wait", "spawn", "mon_read", "mon_sleep", "mon_join",
            "start_finally"}

\* cli.main deploy_signal_handler: on SIGINT or SIGTERM the handler runs
\* deployer.cleanup() and sys.exit(0); the SystemExit unwinds the main
\* thread through the finally clause of ProxyClient.start (stop) and the
\* finally clause of main (cleanup again); "except Exception" does not
\* catch it, and the process exits with status 0
Signal ==
    /\ flow = "main"
    /\ pc \notin {"idle", "done"}
    /\ LET p1 == IF proxyObj THEN StopProc(handle, proc) ELSE proc
           h1 == IF proxyObj THEN FALSE ELSE handle
           p2 == IF InStart THEN StopProc(h1, p1) ELSE p1
           h2 == IF InStart THEN FALSE ELSE h1
       IN  /\ proc' = IF proxyObj THEN StopProc(h2, p2) ELSE p2
           /\ handle' = IF proxyObj THEN FALSE ELSE h2
    /\ measFile' = FALSE
    /\ exc' = "SystemExit"
    /\ failedAt' = pc
    /\ startRet' = IF InStart THEN "raised" ELSE startRet
    /\ ret' = "exit 0"
    /\ pc' = "done"
    /\ UNCHANGED <<worldVars, flow, cfg, steps, metaAtStart, diskName,
                   publicIp, attempt, proxyObj, pipe, emitted, now, startTime,
                   wake, probe, probeWake, markerRead>>
    /\ UNCHANGED extVars
    /\ UNCHANGED auxVars

\* The attestation handshake of cli.main with a terminate signal that can
\* arrive at any moment.
SignalNext ==
    \/ StartProxyServer
    \/ Popen
    \/ WaitGrace
    \/ SpawnProbe
    \/ MonitorRead
    \/ MonitorSleep
    \/ MonitorJoin
    \/ StartFinally
    \/ MainFinally
    \/ ProbeWake
    \/ ProbeComplete
    \/ ProxyEmit
    \/ ProxyExit
    \/ Tick
    \/ Signal

SignalSpec == HandshakeInit /\ [][SignalNext]_vars

(***************************************************************************)
(* get_vm_ip called on its own (cloud/azure/api.py, cloud/gcp/api.py).     *)
(***************************************************************************)
\* AzureApi.get_vm_ip: retry_delay, seconds slept before the next attempt
RETRY_DELAY == 3

\* the two retryable answers: no VM info yet, address field not there yet
NotReady == {"empty", "nofield"}

\* get_vm_ip(vm_name, resource_group, location) is called for a VM that
\* create_vm has just booted; "steps" records the answer of every lookup
GetVmIpInit ==
    /\ ExtIdle
    /\ \E c \in Clouds :
         /\ cfg = [cloud |-> c, name |-> "vm1"]
         /\ LET w == DeployedWorld(c, "vm1")
            IN  /\ vms = w.vms
                /\ disks = w.disks
                /\ everCreated = w.everCreated
    /\ metaFile = EmptyMeta
    /\ writable = {}
    /\ flow = "get_vm_ip"
    /\ pc = "ip_lookup"
    /\ exc = "none"
    /\ failedAt = "none"
    /\ ret = "none"
    /\ steps = <<>>
    /\ metaAtStart = EmptyMeta
    /\ diskName = <<>>
    /\ publicIp = "none"
    /\ attempt = 0
    /\ measFile = FALSE
    /\ proxyObj = FALSE
    /\ proc = "none"
    /\ handle = FALSE
    /\ pipe = <<>>
    /\ emitted = 0
    /\ now = 0
    /\ startTime = 0
    /\ wake = 0
    /\ probe = "none"
    /\ probeWake = 0
    /\ markerRead = FALSE
    /\ startRet = "none"

\* one lookup of get_vm_ip: AzureApi runs "az vm list-ip-addresses" inside
\* "for attempt in range(max_retries)" and sleeps retry_delay before the
\* next attempt; GcpApi calls instance_client.get once
GetVmIpCall ==
    /\ pc = "ip_lookup"
    /\ \E ans \in Answers :
         /\ steps' = Append(steps, ans)
         /\ LET r == GetVmIpLookup(cfg.cloud, attempt, ans)
            IN  CASE r = "raise" ->
                       /\ Abort(IF cfg.cloud = GCP /\ ans # "error"
                                THEN "ValueError" ELSE "RuntimeError",
                                "get_vm_ip")
                       /\ UNCHANGED <<attempt, publicIp, now>>
                  [] r = "retry" ->
                       /\ Goto("ip_lookup")
                       /\ attempt' = attempt + 1
                       /\ now' = now + RETRY_DELAY
                       /\ UNCHANGED publicIp
                  [] r = "return" ->
                       /\ Return(ans)
                       /\ publicIp' = ans
                       /\ UNCHANGED <<attempt, now>>
    /\ UNCHANGED <<worldVars, invFixed, diskName, proc, handle, pipe, emitted,
                   startTime, wake, probe, probeWake, markerRead, startRet>>
    /\ UNCHANGED extVars
    /\ UNCHANGED auxVars

GetVmIpNext ==
    \/ GetVmIpCall

GetVmIpSpec == GetVmIpInit /\ [][GetVmIpNext]_vars

(***************************************************************************)
(* Firewall rules (create_standard_nsg_rules, add_nsg_rule), rule by rule. *)
(***************************************************************************)
SSH_PORT == 22

CONSENSUS_PORT == 18551

\* the destination ports the standard rule set names
AllPorts == {SSH_PORT, 80, 443, 7878, 7936, 8545, 8551, 8645, 8745,
             CONSENSUS_PORT}

\* config.source_ip: the caller's address (get_host_ip or --source-ip)
SourceIps == {"198.51.100.7"}

\* the source the bindings use for "open to all"
AnySources == {"*", "0.0.0.0/0"}

\* the (name, priority, port, protocol, source) rows of the local "rules"
\* of create_standard_nsg_rules
RuleRow(name, priority, port, protocol, source) ==
    [name |-> name, priority |-> priority, port |-> port,
     protocol |-> protocol, source |-> source]

StandardRules(cloud, source_ip) ==
    LET tcp == IF cloud = GCP THEN "tcp" ELSE "Tcp"
        any == IF cloud = GCP THEN "all" ELSE "*"
    IN  << RuleRow("AllowSSH", 100, SSH_PORT, tcp, source_ip),
           RuleRow("AllowAnyHTTPInbound", 101, 80, tcp, "*"),
           RuleRow("AllowAnyHTTPSInbound", 102, 443, tcp, "*"),
           RuleRow("TCP7878", 115, 7878, tcp, "*"),
           RuleRow("TCP7936", 116, 7936, tcp, "*"),
           RuleRow("TCP8545", 110, 8545, tcp, "*"),
           RuleRow("TCP8551", 111, 8551, tcp, "*"),
           RuleRow("TCP8645", 112, 8645, tcp, "*"),
           RuleRow("TCP8745", 113, 8745, tcp, "*"),
           RuleRow("ANY18551", 114, CONSENSUS_PORT, any, "*") >>

\* str.lower() on the protocol names in use
Lower(protocol) == IF protocol = "Tcp" THEN "tcp" ELSE protocol

\* the rule AzureApi.add_nsg_rule asks for: --destination-port-ranges port
\* --protocol protocol --source-address-prefixes source
AzureFirewallRule(vm, row) ==
    [cloud |-> AZURE, name |-> row.name, protocol |-> row.protocol,
     ports |-> {row.port}, source |-> row.source]

\* the compute_v1.Firewall GcpApi.add_nsg_rule builds: for protocol "*" or
\* "all" allowed.ports is left unset, which the backend reads as every port
GcpFirewallRule(vm, row) ==
    LET protocol_lower == Lower(row.protocol)
        all == protocol_lower = "*" \/ protocol_lower = "all"
    IN  [cloud |-> GCP, name |-> <<vm, row.name>>,
         protocol |-> IF all THEN "all" ELSE protocol_lower,
         ports |-> IF all THEN AllPorts ELSE {row.port},
         source |-> IF row.source # "*" THEN row.source ELSE "0.0.0.0/0"]

FirewallRule(cloud, vm, row) ==
    IF cloud = GCP THEN GcpFirewallRule(vm, row)
    ELSE AzureFirewallRule(vm, row)

\* deploy_image has created the disk and the (empty) security group and now
\* calls cloud_api.create_standard_nsg_rules(configs)
NsgInit ==
    /\ \E c \in Clouds, ip \in SourceIps :
         /\ cfg = [cloud |-> c, name |-> "vm1", source_ip |-> ip]
         /\ disks = {<<c, GetDiskName(c, "vm1", Artifact)>>}
         /\ diskName = GetDiskName(c, "vm1", Artifact)
         /\ steps = IF c = GCP
                    THEN <<"disk_exists", "create_disk", "upload_disk",
                           "create_nsg">>
                    ELSE <<"disk_exists", "create_disk", "upload_disk",
                           "grant", "copy", "revoke", "create_nsg">>
    /\ vms = {}
    /\ writable = {}
    /\ metaFile = EmptyMeta
    /\ everCreated = {}
    /\ ExtIdle
    /\ flow = "genesis"
    /\ pc = "nsg_rules"
    /\ exc = "none"
    /\ failedAt = "none"
    /\ ret = "none"
    /\ metaAtStart = EmptyMeta
    /\ publicIp = "none"
    /\ attempt = 0
    /\ measFile = TRUE
    /\ proxyObj = FALSE
    /\ proc = "none"
    /\ handle = FALSE
    /\ pipe = <<>>
    /\ emitted = 0
    /\ now = 0
    /\ startTime = 0
    /\ wake = 0
    /\ probe = "none"
    /\ probeWake = 0
    /\ markerRead = FALSE
    /\ startRet = "none"

\* one iteration of "for name, priority, port, protocol, source, ... in
\* rules: cls.add_nsg_rule(...)".  AzureApi.add_nsg_rule lets the failed
\* command propagate; GcpApi.add_nsg_rule catches every exception of
\* firewall_client.insert, logs a warning and returns.  "steps" records the
\* provider's answer to each rule.
AddNsgRule ==
    /\ pc = "nsg_rules"
    /\ ruleIdx < Len(StandardRules(cfg.cloud, cfg.source_ip))
    /\ LET row == StandardRules(cfg.cloud, cfg.source_ip)[ruleIdx + 1]
           last == ruleIdx + 1 = Len(StandardRules(cfg.cloud, cfg.source_ip))
           after == IF last THEN <<"create_standard_nsg_rules">> ELSE <<>>
       IN  \E ok \in BOOLEAN :
             IF ok
             THEN /\ rules' = rules \cup {FirewallRule(cfg.cloud, cfg.name, row)}
                  /\ ruleIdx' = ruleIdx + 1
                  /\ steps' = Append(steps, "rule_ok") \o after
                  /\ Goto(IF last THEN "di_create_vm" ELSE "nsg_rules")
             ELSE IF cfg.cloud = GCP
             THEN /\ ruleIdx' = ruleIdx + 1
                  /\ steps' = Append(steps, "rule_failed") \o after
                  /\ Goto(IF last THEN "di_create_vm" ELSE "nsg_rules")
                  /\ UNCHANGED rules
             ELSE /\ steps' = Append(steps, "rule_failed")
                  /\ Abort("CalledProcessError", "create_standard_nsg_rules")
                  /\ UNCHANGED <<rules, ruleIdx>>
    /\ UNCHANGED <<worldVars, hsVars, invFixed, diskName, publicIp, attempt,
                   groups, ipRes, dns, previousIps, dnsArgs, stack, results>>
    /\ UNCHANGED auxVars

\* deploy_image from create_standard_nsg_rules to its return, then
\* update_deploy_metadata
NsgNext ==
    \/ AddNsgRule
    \/ CreateVm
    \/ GetVmIp
    \/ DeployReturn
    \/ UpdateDeployMetadata

NsgSpec == NsgInit /\ [][NsgNext]_vars

(***************************************************************************)
(* Resource groups, persistent node IPs and the DNS record                 *)
(* (genesis_deploy.py and the bindings' operations it calls).              *)
(***************************************************************************)
\* args.node is None
NoNode == 0

\* node indexes given with --node
Nodes == {1, 2}

\* args.resource_group: the resource group (Azure) or project (GCP)
GroupName == "rg1"

\* addresses the provider hands out for new static IPs
Addresses == {"ip1", "ip2"}

\* addresses held by the DNS record before the flow runs
OldDnsIps == {"ipA", "ipB"}

\* get_or_create_node_ip: ip_name = f"genesis-node-{node_number}"
IpName(node_number) == <<"genesis-node", node_number>>

\* the static IP resource of this name in the group, if the backend has one
ExistingIps(cloud, group, name) ==
    {r \in ipRes : r.cloud = cloud /\ r.group = group /\ r.name = name}

\* what the actions below leave alone: the deployment pipeline, the
\* handshake and the firewall
genFixed == <<worldVars, hsVars, invFixed, diskName, publicIp, attempt, rules,
              ruleIdx>>

\* a call of a function: continue at its entry, come back to "back"
Call(entry, back) ==
    /\ pc' = entry
    /\ stack' = <<back>> \o stack
    /\ UNCHANGED <<exc, failedAt, ret>>

\* a normal return of the function under way, to its caller or, for the
\* outermost call, out of the flow
ReturnToCaller ==
    /\ pc' = IF stack = <<>> THEN "done" ELSE Head(stack)
    /\ ret' = IF stack = <<>> THEN "returned" ELSE ret
    /\ stack' = IF stack = <<>> THEN stack ELSE Tail(stack)
    /\ UNCHANGED <<exc, failedAt>>

\* an exception nobody in these flows catches
Raise(e, at) ==
    /\ Abort(e, at)
    /\ UNCHANGED stack

\* resource_group_exists of each binding: both answer False when the
\* lookup fails ("fault" in steps marks such a swallowed failure)
ResourceGroupExists(cloud, name, fault) ==
    <<cloud, name>> \in groups /\ ~fault

\* ensure_created_resource_group, up to the result of resource_group_exists.
\* AzureApi goes on to confirm and create when the answer is False; GcpApi
\* logs a warning and returns.
EnsureRgExists ==
    /\ pc = "rg_exists"
    /\ \E fault \in BOOLEAN :
         /\ steps' = steps \o <<"resource_group_exists">>
                           \o (IF fault THEN <<"fault">> ELSE <<>>)
         /\ IF ResourceGroupExists(cfg.cloud, cfg.name, fault)
            THEN ReturnToCaller
            ELSE IF cfg.cloud = GCP
            THEN ReturnToCaller
            ELSE /\ Goto("rg_confirm")
                 /\ UNCHANGED stack
    /\ UNCHANGED <<genFixed, groups, ipRes, dns, previousIps, dnsArgs,
                   results>>
    /\ UNCHANGED auxVars

\* AzureApi.ensure_created_resource_group: confirm(...) raises ValueError
\* unless the answer is "y"
EnsureRgConfirm ==
    /\ pc = "rg_confirm"
    /\ steps' = Append(steps, "confirm")
    /\ \E yes \in BOOLEAN :
         IF yes THEN Goto("rg_create") /\ UNCHANGED stack
         ELSE Raise("ValueError", "confirm")
    /\ UNCHANGED <<genFixed, groups, ipRes, dns, previousIps, dnsArgs,
                   results>>
    /\ UNCHANGED auxVars

\* AzureApi.create_resource_group: "az group create"
EnsureRgCreate ==
    /\ pc = "rg_create"
    /\ steps' = Append(steps, "create_resource_group")
    /\ \E ok \in BOOLEAN :
         IF ok
         THEN /\ groups' = groups \cup {<<cfg.cloud, cfg.name>>}
              /\ ReturnToCaller
         ELSE /\ Raise("CalledProcessError", "create_resource_group")
              /\ UNCHANGED groups
    /\ UNCHANGED <<genFixed, ipRes, dns, previousIps, dnsArgs, results>>
    /\ UNCHANGED auxVars

\* get_or_create_node_ip: self.ensure_genesis_resource_group(region)
NodeIpEnsure ==
    /\ pc = "ip_ensure"
    /\ Call("rg_exists", "ip_existing")
    /\ UNCHANGED <<genFixed, steps, groups, ipRes, dns, previousIps, dnsArgs,
                   results>>
    /\ UNCHANGED auxVars

\* GetExistingPublicIp that never finds the resource
GetExistingPublicIpBlind(cloud, group, name, fault) == "None"

\* get_existing_public_ip of each binding: the address of the resource, None
\* when there is none or when the lookup fails
GetExistingPublicIp(cloud, group, name, fault) ==
    IF fault \/ ExistingIps(cloud, group, name) = {} THEN "None"
    ELSE (CHOOSE r \in ExistingIps(cloud, group, name) : TRUE).address

\* get_or_create_node_ip: existing_ip = get_existing_public_ip(...); when
\* there is one, return (existing_ip, ip_name)
NodeIpExisting ==
    /\ pc = "ip_existing"
    /\ \E fault \in BOOLEAN :
         LET existing_ip ==
                 GetExistingPublicIp(cfg.cloud, cfg.name, IpName(cfg.node),
                                     fault)
         IN  /\ steps' = steps \o <<"get_existing_public_ip">>
                               \o (IF fault THEN <<"fault">> ELSE <<>>)
             /\ IF existing_ip # "None"
                THEN /\ results' = Append(results,
                                          <<existing_ip, IpName(cfg.node)>>)
                     /\ ReturnToCaller
                ELSE /\ Goto("ip_confirm")
                     /\ UNCHANGED <<stack, results>>
    /\ UNCHANGED <<genFixed, groups, ipRes, dns, previousIps, dnsArgs>>
    /\ UNCHANGED auxVars

\* get_or_create_node_ip: confirm("create new IP for node ...")
NodeIpConfirm ==
    /\ pc = "ip_confirm"
    /\ steps' = Append(steps, "confirm")
    /\ \E yes \in BOOLEAN :
         IF yes THEN Goto("ip_create") /\ UNCHANGED stack
         ELSE Raise("ValueError", "confirm")
    /\ UNCHANGED <<genFixed, groups, ipRes, dns, previousIps, dnsArgs,
                   results>>
    /\ UNCHANGED auxVars

\* create_public_ip of each binding.  The backend needs the group; for a
\* name that is taken, "az network public-ip create" answers with the
\* existing resource while the GCP addresses.insert is refused.
NodeIpCreate ==
    /\ pc = "ip_create"
    /\ steps' = Append(steps, "create_public_ip")
    /\ LET ex == ExistingIps(cfg.cloud, cfg.name, IpName(cfg.node))
           used == {r.address : r \in ipRes}
       IN  \E ok \in BOOLEAN, a \in Addresses :
             IF /\ ok
                /\ <<cfg.cloud, cfg.name>> \in groups
                /\ IF ex = {} THEN a \notin used
                   ELSE cfg.cloud = AZURE /\ \E r \in ex : r.address = a
             THEN /\ ipRes' = ipRes \cup
                       {[cloud |-> cfg.cloud, group |-> cfg.name,
                         name |-> IpName(cfg.node), address |-> a]}
                  /\ results' = Append(results, <<a, IpName(cfg.node)>>)
                  /\ ReturnToCaller
             ELSE /\ Raise("ProviderError", "create_public_ip")
                  /\ UNCHANGED <<ipRes, results>>
    /\ UNCHANGED <<genFixed, groups, dns, previousIps, dnsArgs>>
    /\ UNCHANGED auxVars

\* a second call of get_or_create_node_ip with the same node number
NodeIpSecondCall ==
    /\ pc = "ip_second"
    /\ steps' = Append(steps, "second_call")
    /\ pc' = "ip_ensure"
    /\ UNCHANGED <<genFixed, exc, failedAt, ret, stack, groups, ipRes, dns,
                   previousIps, dnsArgs, results>>
    /\ UNCHANGED auxVars

\* the orders in which a listing can enumerate the set S
Enumerations(S) ==
    {q \in [1..Cardinality(S) -> S] :
        \A i, j \in 1..Cardinality(S) : i # j => q[i] # q[j]}

\* DnsStart that never removes the previous addresses
DnsStartKeepOld ==
    /\ pc = "dns_start"
    /\ Goto("dns_add")
    /\ UNCHANGED <<genFixed, steps, stack, groups, ipRes, dns, previousIps,
                   dnsArgs, results>>
    /\ UNCHANGED auxVars

\* AzureApi.update_dns_record: if remove_old: ...
DnsStart ==
    /\ pc = "dns_start"
    /\ Goto(IF dnsArgs.remove_old THEN "dns_list" ELSE "dns_add")
    /\ UNCHANGED <<genFixed, steps, stack, groups, ipRes, dns, previousIps,
                   dnsArgs, results>>
    /\ UNCHANGED auxVars

\* previous_ips = get_existing_dns_ips(config)
DnsList ==
    /\ pc = "dns_list"
    /\ steps' = Append(steps, "get_existing_dns_ips")
    /\ \E ok \in BOOLEAN :
         IF ok
         THEN /\ \E q \in Enumerations(dns) : previousIps' = q
              /\ Goto("dns_remove")
              /\ UNCHANGED stack
         ELSE /\ Raise("CalledProcessError", "get_existing_dns_ips")
              /\ UNCHANGED previousIps
    /\ UNCHANGED <<genFixed, groups, ipRes, dns, dnsArgs, results>>
    /\ UNCHANGED auxVars

\* for prev_ip in previous_ips: remove_dns_ip(config, prev_ip)
DnsRemove ==
    /\ pc = "dns_remove"
    /\ IF previousIps = <<>>
       THEN /\ Goto("dns_add")
            /\ UNCHANGED <<steps, stack, dns, previousIps>>
       ELSE /\ steps' = Append(steps, "remove_dns_ip")
            /\ \E ok \in BOOLEAN :
                 IF ok
                 THEN /\ dns' = dns \ {Head(previousIps)}
                      /\ previousIps' = Tail(previousIps)
                      /\ Goto("dns_remove")
                      /\ UNCHANGED stack
                 ELSE /\ Raise("CalledProcessError", "remove_dns_ip")
                      /\ UNCHANGED <<dns, previousIps>>
    /\ UNCHANGED <<genFixed, groups, ipRes, dnsArgs, results>>
    /\ UNCHANGED auxVars

\* add_dns_ip(config, ip_address): "az network dns record-set a add-record"
DnsAdd ==
    /\ pc = "dns_add"
    /\ steps' = Append(steps, "add_dns_ip")
    /\ \E ok \in BOOLEAN :
         IF ok
         THEN /\ dns' = dns \cup {dnsArgs.ip_address}
              /\ ReturnToCaller
         ELSE /\ Raise("CalledProcessError", "add_dns_ip")
              /\ UNCHANGED dns
    /\ UNCHANGED <<genFixed, groups, ipRes, previousIps, dnsArgs, results>>
    /\ UNCHANGED auxVars

\* genesis_deploy.main: DeploymentConfig.from_genesis_args: expect_artifact
\* and configure_genesis_node raise ValueError; the region is taken as given
GenesisParse ==
    /\ pc = "g_parse"
    /\ IF ~cfg.artifact THEN Raise("ValueError", "expect_artifact")
       ELSE IF cfg.node = NoNode
       THEN Raise("ValueError", "configure_genesis_node")
       ELSE Goto("g_args") /\ UNCHANGED stack
    /\ UNCHANGED <<genFixed, steps, groups, ipRes, dns, previousIps, dnsArgs,
                   results>>
    /\ UNCHANGED auxVars

\* deploy_genesis_vm: the --artifact check, args.to_configs(),
\* check_dependencies, then cloud_api.ensure_created_resource_group(...)
GenesisCheckArgs ==
    /\ pc = "g_args"
    /\ IF ~cfg.artifact /\ ~cfg.ip_only
       THEN Raise("ValueError", "artifact")
       ELSE Call("rg_exists", "g_node")
    /\ UNCHANGED <<genFixed, steps, groups, ipRes, dns, previousIps, dnsArgs,
                   results>>
    /\ UNCHANGED auxVars

\* deploy_genesis_vm: "if node is None: raise", then get_or_create_node_ip
GenesisCheckNode ==
    /\ pc = "g_node"
    /\ IF cfg.node = NoNode
       THEN Raise("ValueError", "node")
       ELSE Call("ip_ensure", "g_dns")
    /\ UNCHANGED <<genFixed, steps, groups, ipRes, dns, previousIps, dnsArgs,
                   results>>
    /\ UNCHANGED auxVars

\* deploy_genesis_vm: AzureApi.update_dns_record(deploy_cfg, ip_address,
\* remove_old=False)
GenesisDns ==
    /\ pc = "g_dns"
    /\ dnsArgs' = [ip_address |-> results[Len(results)][1],
                   remove_old |-> FALSE]
    /\ Call("dns_start", "g_ip_only")
    /\ UNCHANGED <<genFixed, steps, groups, ipRes, dns, previousIps, results>>
    /\ UNCHANGED auxVars

\* deploy_genesis_vm: return when args.ip_only, else maybe_build and the
\* construction of the Deployer
GenesisIpOnly ==
    /\ pc = "g_ip_only"
    /\ IF cfg.ip_only
       THEN ReturnToCaller /\ UNCHANGED measFile
       ELSE Goto("di_check") /\ measFile' = TRUE /\ UNCHANGED stack
    /\ UNCHANGED <<worldVars, hsVars, flow, cfg, metaAtStart, proxyObj,
                   diskName, publicIp, attempt, rules, ruleIdx, steps, groups,
                   ipRes, dns, previousIps, dnsArgs, results>>
    /\ UNCHANGED auxVars

\* the configurations handed to the flows below
GenesisConfigs ==
    [cloud : Clouds, name : {GroupName}, node : {NoNode} \cup Nodes,
     artifact : BOOLEAN, ip_only : BOOLEAN, region : {"valid", "invalid"}]

\* backends the flows can meet: the group is there or not, node 1 has its
\* IP already or not, the DNS record is empty or holds two addresses
GenesisBackends(cloud) ==
    LET g == <<cloud, GroupName>>
        ip == [cloud |-> cloud, group |-> GroupName, name |-> IpName(1),
               address |-> "ip1"]
    IN  {[groups |-> gs, ipRes |-> is, dns |-> d] :
            gs \in {{}, {g}}, is \in {{}, {ip}}, d \in {{}, OldDnsIps}}

\* Starting points: deploy_genesis_vm (from genesis_deploy.main or called
\* with a DeploymentConfig), and direct calls of
\* ensure_created_resource_group, of get_or_create_node_ip (twice in a row)
\* and of update_dns_record.
GenesisInit ==
    /\ vms = {}
    /\ disks = {}
    /\ writable = {}
    /\ metaFile = EmptyMeta
    /\ everCreated = {}
    /\ rules = {}
    /\ ruleIdx = 0
    /\ previousIps = <<>>
    /\ results = <<>>
    /\ san = NoSan
    /\ metaOps = <<>>
    /\ cfg \in GenesisConfigs
    /\ \E b \in GenesisBackends(cfg.cloud) :
         /\ groups = b.groups
         /\ ipRes = b.ipRes
         /\ dns = b.dns
         /\ b.ipRes # {} => b.groups # {}
    /\ \/ /\ flow = "genesis"
          /\ pc \in {"g_parse", "g_args"}
          /\ stack = <<>>
          /\ dnsArgs = NoDnsArgs
       \/ /\ flow = "ensure_rg"
          /\ pc = "rg_exists"
          /\ stack = <<>>
          /\ dnsArgs = NoDnsArgs
       \/ /\ flow = "node_ip"
          /\ cfg.node # NoNode
          /\ pc = "ip_ensure"
          /\ stack = <<"ip_second">>
          /\ dnsArgs = NoDnsArgs
       \/ /\ flow = "dns"
          /\ dns = OldDnsIps
          /\ pc = "dns_start"
          /\ stack = <<>>
          /\ dnsArgs \in [ip_address : OldDnsIps \cup {"ip1"},
                          remove_old : BOOLEAN]
    /\ exc = "none"
    /\ failedAt = "none"
    /\ ret = "none"
    /\ steps = <<>>
    /\ metaAtStart = EmptyMeta
    /\ diskName = <<>>
    /\ publicIp = "none"
    /\ attempt = 0
    /\ measFile = FALSE
    /\ proxyObj = FALSE
    /\ proc = "none"
    /\ handle = FALSE
    /\ pipe = <<>>
    /\ emitted = 0
    /\ now = 0
    /\ startTime = 0
    /\ wake = 0
    /\ probe = "none"
    /\ probeWake = 0
    /\ markerRead = FALSE
    /\ startRet = "none"

GenesisNext ==
    \/ GenesisParse
    \/ GenesisCheckArgs
    \/ GenesisCheckNode
    \/ GenesisDns
    \/ GenesisIpOnly
    \/ EnsureRgExists
    \/ EnsureRgConfirm
    \/ EnsureRgCreate
    \/ NodeIpEnsure
    \/ NodeIpExisting
    \/ NodeIpConfirm
    \/ NodeIpCreate
    \/ NodeIpSecondCall
    \/ DnsStart
    \/ DnsList
    \/ DnsRemove
    \/ DnsAdd

GenesisSpec == GenesisInit /\ [][GenesisNext]_vars

(***************************************************************************)
(* GcpApi._sanitize_gcp_name on disk names, character by character         *)
(* (cloud/gcp/api.py, cloud/cloud_api.py).                                 *)
(***************************************************************************)
\* longest VM name and longest end of an artifact name that are enumerated
MaxNameLen == 2
\* the filled artifact names reach from FillSlack characters below the
\* length limit up to the limit
FillSlack == 8

\* gcp/api.py:95-96  if len(name) > 63: name = name[:63]
GCP_NAME_MAX == 63

\* the characters of the names: a lowercase letter, an uppercase letter, a
\* digit, a dot and a character GCP does not allow
Alphabet == {"a", "A", "7", ".", "$"}
\* [a-z]: the letters that occur after lower(), and those of "disk-"
LowerLetters == {"a", "d", "i", "s", "k"}
\* [a-z0-9-]
ValidChars == LowerLetters \cup {"7", "-"}
\* "disk-"
DiskPrefix == <<"d", "i", "s", "k", "-">>

NameStrings == UNION {[1..n -> Alphabet] : n \in 1..MaxNameLen}

\* a run of n letters, the middle of a long artifact name
Fill(n) == [i \in 1..n |-> "a"]
FillLens == {0} \cup ((GCP_NAME_MAX - FillSlack)..GCP_NAME_MAX)

\* CloudApi.get_raw_disk_name: f"{vm_name}_{artifact}"
RawDiskString(vm_name, artifact) == vm_name \o <<"_">> \o artifact

\* name.lower()
ToLower(name) ==
    [i \in 1..Len(name) |-> IF name[i] = "A" THEN "a" ELSE name[i]]

\* name.replace("_", "-").replace(".", "-")
ReplaceSeparators(name) ==
    [i \in 1..Len(name) |-> IF name[i] \in {"_", "."} THEN "-" ELSE name[i]]

\* re.sub(r"[^a-z0-9-]", "", name)
InValidChars(c) == c \in ValidChars
RemoveInvalid(name) == SelectSeq(name, InValidChars)

\* if name and not name[0].isalpha(): name = "disk-" + name
EnsureLetter(name) ==
    IF name # <<>> /\ name[1] \notin LowerLetters THEN DiskPrefix \o name
    ELSE name

\* if len(name) > 63: name = name[:63]
Trim(name) ==
    IF Len(name) > GCP_NAME_MAX THEN SubSeq(name, 1, GCP_NAME_MAX) ELSE name

\* name.rstrip("-")
RECURSIVE RStripHyphens(_)
RStripHyphens(name) ==
    IF name # <<>> /\ name[Len(name)] = "-"
    THEN RStripHyphens(SubSeq(name, 1, Len(name) - 1))
    ELSE name

\* SanitizeGcpString that strips the trailing hyphens before it trims
SanitizeGcpStringTrimLast(name) ==
    Trim(RStripHyphens(EnsureLetter(RemoveInvalid(ReplaceSeparators(
        ToLower(name))))))

\* GcpApi._sanitize_gcp_name
SanitizeGcpString(name) ==
    RStripHyphens(Trim(EnsureLetter(RemoveInvalid(ReplaceSeparators(
        ToLower(name))))))

\* x = get_raw_disk_name(vm_name, artifact) for a VM name and an artifact
\* file name; nothing else is running
SanitizeInit ==
    /\ vms = {}
    /\ disks = {}
    /\ writable = {}
    /\ metaFile = EmptyMeta
    /\ everCreated = {}
    /\ InvocationIdle
    /\ NetIdle
    /\ metaOps = <<>>
    /\ \E vm_name \in NameStrings, tail \in NameStrings \cup {<<>>},
          n \in FillLens :
         san = [stage |-> "raw",
                raw |-> RawDiskString(vm_name, Fill(n) \o tail),
                once |-> <<>>, twice |-> <<>>]

\* y = _sanitize_gcp_name(x)
SanitizeFirst ==
    /\ san.stage = "raw"
    /\ san' = [san EXCEPT !.stage = "once",
                          !.once = SanitizeGcpString(san.raw)]
    /\ UNCHANGED <<worldVars, invVars, hsVars, extVars, metaOps>>

\* z = _sanitize_gcp_name(y)
SanitizeSecond ==
    /\ san.stage = "once"
    /\ san' = [san EXCEPT !.stage = "twice",
                          !.twice = SanitizeGcpString(san.once)]
    /\ UNCHANGED <<worldVars, invVars, hsVars, extVars, metaOps>>

SanitizeNext == SanitizeFirst \/ SanitizeSecond

SanitizeSpec == SanitizeInit /\ [][SanitizeNext]_vars

(***************************************************************************)
(* The metadata file under invocations that can run at the same time       *)
(* (utils/metadata.py, deployment/deploy.py): load_metadata, the change in *)
(* memory and write_metadata are separate steps, and nothing locks the     *)
(* file.                                                                   *)
(***************************************************************************)
\* the invocations that work on one home directory
Invocations == {1, 2}

\* an invocation that has not called a metadata operation yet
IdleOp ==
    [op |-> "none", cloud |-> "none", name |-> "none", ip |-> "none",
     pc |-> "idle", local |-> EmptyMeta, wrote |-> FALSE,
     overlapped |-> FALSE]

\* a file whose "resources" object has no provider partition yet
PartialMeta ==
    [hasResources |-> TRUE, order |-> <<>>, resources |-> <<>>,
     artifacts |-> {}]

\* the files one update_deploy_metadata away from m
AfterUpdate(m) ==
    {UpdatedMeta(m, c, n, Artifact, "ip1") : c \in Clouds, n \in Names}

\* the files the invocations start from: up to two deployments recorded
\* into a file without resources or without partitions
MetaStores ==
    LET base == {EmptyMeta, PartialMeta}
        one == UNION {AfterUpdate(m) : m \in base}
        two == UNION {AfterUpdate(m) : m \in one}
    IN  base \cup one \cup two

MetaInit ==
    /\ vms = {}
    /\ disks = {}
    /\ writable = {}
    /\ everCreated = {}
    /\ \E m \in MetaStores, a \in {{}, {Artifact}} :
         metaFile = [m EXCEPT !.artifacts = a]
    /\ InvocationIdle
    /\ NetIdle
    /\ san = NoSan
    /\ metaOps = [p \in Invocations |-> IdleOp]

\* the invocation is between its load_metadata and its write_metadata
Active(o) == o.pc \in {"load", "write"}

\* an invocation calls update_deploy_metadata for (cloud, name) with the
\* address it obtained, or remove_vm_from_metadata(name, home, cloud)
MetaBegin ==
    /\ \E p \in Invocations, k \in {"update", "remove"}, c \in Clouds,
          n \in Names, a \in Addresses :
         /\ metaOps[p].pc = "idle"
         /\ k = "remove" => a = "ip1"
         /\ metaOps' =
              [q \in Invocations |->
                 IF q = p
                 THEN [IdleOp EXCEPT
                         !.op = k, !.cloud = c, !.name = n,
                         !.ip = IF k = "update" THEN a ELSE "none",
                         !.pc = "load",
                         !.overlapped = \E r \in Invocations \ {p} :
                                           Active(metaOps[r])]
                 ELSE IF Active(metaOps[q])
                 THEN [metaOps[q] EXCEPT !.overlapped = TRUE]
                 ELSE metaOps[q]]
    /\ UNCHANGED <<worldVars, invVars, hsVars, extVars, san>>

\* MetaLoad that works on the file as it was when the process started
MetaLoadStale ==
    /\ \E p \in Invocations :
         LET o == metaOps[p]
             absent == /\ o.op = "remove"
                       /\ ~HasRecord(metaAtStart, o.cloud, o.name)
         IN  /\ o.pc = "load"
             /\ metaOps' = [metaOps EXCEPT ![p] =
                              [o EXCEPT !.local = metaAtStart,
                                        !.pc = IF absent THEN "done"
                                               ELSE "write"]]
    /\ UNCHANGED <<worldVars, invVars, hsVars, extVars, san>>

\* metadata = load_metadata(home); remove_vm_from_metadata returns at once
\* when the name is not in the partition
MetaLoad ==
    /\ \E p \in Invocations :
         LET o == metaOps[p]
             absent == /\ o.op = "remove"
                       /\ ~HasRecord(metaFile, o.cloud, o.name)
         IN  /\ o.pc = "load"
             /\ metaOps' = [metaOps EXCEPT ![p] =
                              [o EXCEPT !.local = metaFile,
                                        !.pc = IF absent THEN "done"
                                               ELSE "write"]]
    /\ UNCHANGED <<worldVars, invVars, hsVars, extVars, san>>

\* the change of the loaded dictionary and write_metadata(metadata, home):
\* the whole file is replaced by the changed copy
MetaWrite ==
    /\ \E p \in Invocations :
         LET o == metaOps[p]
         IN  /\ o.pc = "write"
             /\ metaFile' =
                  IF o.op = "update"
                  THEN UpdatedMeta(o.local, o.cloud, o.name, Artifact, o.ip)
                  ELSE RemovedMeta(o.local, o.name, o.cloud)
             /\ metaOps' = [metaOps EXCEPT ![p] =
                              [o EXCEPT !.wrote = TRUE, !.pc = "done"]]
    /\ UNCHANGED <<vms, disks, writable, everCreated>>
    /\ UNCHANGED <<invVars, hsVars, extVars, san>>

MetaNext == MetaBegin \/ MetaLoad \/ MetaWrite

MetaSpec == MetaInit /\ [][MetaNext]_vars

(***************************************************************************)
(* deployment.deploy.delete_vm on the files that update_deploy_metadata    *)
(* can leave behind (deployment/deploy.py).                                *)
(***************************************************************************)
\* the keys recorded in file m
RecordedKeys(m) ==
    {k \in Clouds \X Names : HasRecord(m, k[1], k[2])}

\* every recorded deployment is in place (its VM runs on its disk), and
\* cli.main is started with --delete-vm
DeleteInit ==
    /\ \E m \in MetaStores :
         /\ metaFile = m
         /\ vms = {NewVm(k[1], k[2], GetDiskName(k[1], k[2], Artifact)) :
                      k \in RecordedKeys(m)}
         /\ disks = {<<k[1], GetDiskName(k[1], k[2], Artifact)>> :
                        k \in RecordedKeys(m)}
         /\ everCreated = RecordedKeys(m)
    /\ writable = {}
    /\ Idle

DeleteNext ==
    \/ StartDelete
    \/ OrchestratorScan
    \/ BindingLookup
    \/ Confirm
    \/ DeleteVmStep
    \/ DeleteDiskStep
    \/ RemoveMeta
    \/ ProcessExit

DeleteSpec == DeleteInit /\ [][DeleteNext]_vars

(***************************************************************************)
(* Properties.                                                             *)
(***************************************************************************)
\* step x was invoked in the running invocation
InSteps(x) == \E i \in DOMAIN steps : steps[i] = x

\* sequence s is a prefix of sequence t
IsPrefix(s, t) ==
    /\ Len(s) <= Len(t)
    /\ \A i \in DOMAIN s : s[i] = t[i]

Keys == Clouds \X Names

\* C1: when the attestation handshake of cli.main fails, the metadata store
\* holds, after main has returned, no ResourceRecord written by this
\* invocation for (provider, vmName).
C1_NoRecordAfterFailedHandshake ==
    (flow = "main" /\ pc = "done" /\ startRet = "raised")
        => ~(InSteps("update_deploy_metadata")
               /\ HasRecord(metaFile, cfg.cloud, cfg.name))

\* C2: ProxyClient.start returns True only after the marker line has been
\* read from the proxy's stdout and the probe thread has ended.
C2_SuccessNeedsMarkerAndProbe ==
    startRet = "True" => (markerRead /\ ProbeFinished(probe))

\* a handshake that returned True to cli.main
C2_Witness ==
    pc = "done" /\ startRet = "True" /\ ret = "0"

\* C3: when the probe request fails (ConnectionError in the probe thread),
\* ProxyClient.start does not return True.
C3_FailedProbeFailsHandshake ==
    probe = "failed" => startRet # "True"

\* the proxy has written no marker line so far
NoMarkerSoFar ==
    ~markerRead /\ \A i \in DOMAIN pipe : pipe[i] # MARKER

\* C4: when the proxy emits no marker, the monitor does not wait beyond
\* its 30s timeout (plus the one-second period of its loop): it has raised
\* TimeoutError by then.
C4_MonitorTimesOut ==
    (pc \in {"mon_read", "mon_sleep"} /\ NoMarkerSoFar)
        => now - startTime <= MONITOR_TIMEOUT + MONITOR_SLEEP

\* C5 as claimed: between invocations the store holds a record for a key
\* if and only if a VM-creation step completed for it and the VM has not
\* been torn down.
C5_RecordIffVm ==
    pc \in {"idle", "done"} =>
        \A k \in Keys :
            HasRecord(metaFile, k[1], k[2])
                <=> (k \in everCreated /\ VmExists(k[1], k[2]))

\* C5 as amended: the store holds a record for a key only if a VM-creation
\* step has completed for that key, and after a deployment that returned
\* normally both the record and the VM exist.
C5_RecordOnlyIfCreated ==
    /\ \A k \in Keys : HasRecord(metaFile, k[1], k[2]) => k \in everCreated
    /\ (flow = "genesis" /\ pc = "done" /\ exc = "none")
          => (HasRecord(metaFile, cfg.cloud, cfg.name)
                /\ VmExists(cfg.cloud, cfg.name))

\* a deployment has returned normally with its record written
C5_Witness ==
    /\ flow = "genesis" /\ pc = "done" /\ exc = "none"
    /\ HasRecord(metaFile, cfg.cloud, cfg.name)

\* positions of the main thread inside Deployer.deploy and before the
\* metadata update
DeployPcs ==
    {"di_check", "di_disk_exists", "di_create_disk", "di_upload", "up_copy",
     "up_revoke", "di_nsg", "di_rules", "di_create_vm", "di_get_ip",
     "deploy_ret", "update_meta"}

\* the steps of Deployer.deploy that can raise
PipelineSteps ==
    {"image_path", "disk_exists", "create_disk", "grant", "copy", "revoke",
     "create_nsg", "create_standard_nsg_rules", "create_vm", "get_vm_ip",
     "deploy"}

\* C6: in cli.main and in deploy_genesis_vm, no step of deploy_image or
\* Deployer.deploy changes the metadata file, update_deploy_metadata runs
\* only after the pipeline has created the VM and returned its address, and
\* a pipeline step that raises leaves the file as it was at the start.
C6_PipelineLeavesMetadata ==
    /\ pc \in DeployPcs => metaFile = metaAtStart
    /\ InSteps("update_deploy_metadata") =>
          /\ failedAt \notin PipelineSteps
          /\ publicIp \in Ips
          /\ InSteps("create_vm") /\ InSteps("get_vm_ip")
          /\ VmExists(cfg.cloud, cfg.name)
    /\ (pc = "done" /\ failedAt \in PipelineSteps) => metaFile = metaAtStart

\* cli.main ended because get_vm_ip raised after create_vm had succeeded
C6_Witness ==
    /\ flow = "main" /\ pc = "done" /\ failedAt = "get_vm_ip"
    /\ VmExists(cfg.cloud, cfg.name)

\* the order of the steps of a binding's delete_vm
DeleteOrder ==
    <<"lookup", "confirm", "delete_vm", "delete_disk",
      "remove_vm_from_metadata">>

\* C7: delete_vm performs lookup, confirmation, VM deletion, disk deletion
\* and metadata removal in this order; the metadata file is untouched
\* before the removal step, and when the removal step has run the VM and
\* its disk are gone.
C7_DeleteOrderAndRemoval ==
    flow \in {"delete", "binding"} =>
        /\ IsPrefix(steps, DeleteOrder)
        /\ ~InSteps("remove_vm_from_metadata") => metaFile = metaAtStart
        /\ InSteps("remove_vm_from_metadata") =>
              /\ exc = "none"
              /\ ~VmExists(cfg.cloud, cfg.name)
              /\ <<cfg.cloud, DeleteDiskName(cfg.cloud, cfg.name, Artifact)>>
                    \notin disks
              /\ ~HasRecord(metaFile, cfg.cloud, cfg.name)

\* the orchestrator's delete_vm has removed a record and returned True
C7_Witness ==
    /\ flow = "delete" /\ pc = "done" /\ ret = "True"
    /\ metaFile # metaAtStart

\* C8: a confirmed delete_vm whose VM deletion succeeded completes the
\* teardown (unless the backend fails the deletion of an existing disk):
\* the record is removed and True is returned.
C8_TeardownCompletes ==
    (/\ flow \in {"delete", "binding"}
     /\ pc = "done"
     /\ InSteps("delete_disk")
     /\ exc # "ProviderError")
        => (ret = "True" /\ ~HasRecord(metaFile, cfg.cloud, cfg.name))

\* C9: every failing or declined path of delete_vm leaves the metadata
\* file unchanged and returns False instead of raising.
C9_FailureReturnsFalse ==
    (flow \in {"delete", "binding"} /\ pc = "done" /\ ret # "True")
        => (ret = "False" /\ exc = "none" /\ metaFile = metaAtStart)

\* C10: once upload_disk is over (normally or by an exception), write
\* access that was granted has been revoked: the revoke phase has run.
C10_RevokeAlwaysRuns ==
    (InSteps("grant") /\ failedAt # "grant"
        /\ pc \notin {"up_copy", "up_revoke"})
        => InSteps("revoke")

\* the backend answered every lookup so far with "not ready" or an address
OnlyNotReadyOrAddress ==
    \A i \in DOMAIN steps : steps[i] \in NotReady \cup Ips

\* the outcome of a finished get_vm_ip as the contract states it: an
\* address after k <= 9 "not ready" answers is returned at lookup k+1, ten
\* "not ready" answers end in an error after exactly MAX_RETRIES lookups,
\* RETRY_DELAY seconds apart
RetryContract ==
    LET n == Len(steps)
    IN  /\ n \in 1..MAX_RETRIES
        /\ now = RETRY_DELAY * (n - 1)
        /\ \A i \in 1..(n - 1) : steps[i] \in NotReady
        /\ IF steps[n] \in Ips
           THEN exc = "none" /\ ret = steps[n]
           ELSE n = MAX_RETRIES /\ exc # "none" /\ ret = "raised"

\* C11: get_vm_ip of either binding retries a "not ready" answer, up to 10
\* lookups 3s apart, and fails only when the attempts are exhausted.
C11_SameRetryInBothBindings ==
    (flow = "get_vm_ip" /\ pc = "done" /\ OnlyNotReadyOrAddress)
        => RetryContract

\* C12: AzureApi.get_vm_ip, against a backend that answers "not ready" k
\* times and then an address, returns the address after exactly k+1 lookups
\* for k in 0..9; after ten "not ready" answers it has made exactly 10
\* lookups and raises RuntimeError; it never makes an 11th lookup.
C12_AzureRetryCount ==
    (flow = "get_vm_ip" /\ cfg.cloud = AZURE) =>
        /\ Len(steps) <= MAX_RETRIES
        /\ (pc = "done" /\ OnlyNotReadyOrAddress) =>
              /\ RetryContract
              /\ exc \in {"none", "RuntimeError"}
              /\ ret # ""

\* three "not ready" answers, then the address, returned at the 4th lookup
C12_Witness ==
    /\ flow = "get_vm_ip" /\ cfg.cloud = AZURE /\ pc = "done"
    /\ Len(steps) = 4 /\ steps[1] = "empty" /\ steps[3] = "nofield"
    /\ ret = "ip1"

\* deploy_image took the branch "disk_exists returned true": disk_exists
\* has answered, create_disk was neither called nor is about to be
ReusedDisk ==
    /\ flow \in {"main", "genesis"}
    /\ InSteps("disk_exists")
    /\ failedAt # "disk_exists"
    /\ pc # "di_create_disk"
    /\ ~InSteps("create_disk")

\* C13: when disk_exists returns true, deploy_image makes no create_disk
\* call (create_disk is entered only with disk_name unassigned), disk_name is
\* the name from get_disk_name, and the pipeline goes on: create_vm boots
\* the VM from that disk and the IP lookup follows it.
C13_ExistingDiskIsReused ==
    /\ (flow \in {"main", "genesis"} /\ pc = "di_create_disk")
          => diskName = <<>>
    /\ ReusedDisk =>
          /\ diskName = GetDiskName(cfg.cloud, cfg.name, Artifact)
          /\ (InSteps("create_vm") /\ failedAt # "create_vm") =>
                \E v \in vms : /\ v.cloud = cfg.cloud
                               /\ v.name = cfg.name
                               /\ v.disk = diskName
          /\ InSteps("get_vm_ip") =>
                (InSteps("create_vm") /\ failedAt # "create_vm")

\* a deployment over a leftover disk that reached the IP lookup
C13_Witness ==
    /\ ReusedDisk
    /\ InSteps("get_vm_ip")
    /\ <<cfg.cloud, cfg.name>> \in everCreated
    /\ VmExists(cfg.cloud, cfg.name)

\* the installed rule admits TCP traffic to this destination port
Admits(rule, port) ==
    /\ port \in rule.ports
    /\ Lower(rule.protocol) \in {"tcp", "all", "*"}

\* C14: every installed rule that admits traffic to TCP port 22 has the
\* caller's source_ip as its source; no rule open to all sources covers
\* port 22.
C14_SshOnlyFromCaller ==
    \A rule \in rules :
        Admits(rule, SSH_PORT) =>
            (rule.source = cfg.source_ip /\ rule.source \notin AnySources)

\* C15: when the provider failed the creation of a firewall rule,
\* create_standard_nsg_rules does not return normally: deploy_image never
\* reaches create_vm.
C15_FailedRuleAbortsDeploy ==
    InSteps("rule_failed") =>
        /\ ~InSteps("create_standard_nsg_rules")
        /\ ~InSteps("create_vm")
        /\ pc = "done" /\ exc # "none"

\* the steps of the second call of get_or_create_node_ip
SecondCallSteps ==
    LET i == CHOOSE k \in DOMAIN steps : steps[k] = "second_call"
    IN  SubSeq(steps, i + 1, Len(steps))

InSeq(x, q) == \E i \in DOMAIN q : q[i] = x

C17_EnsureScope ==
    flow = "ensure_rg" =>
        /\ (<<cfg.cloud, cfg.name>> \in groups
              /\ ~InSteps("create_resource_group") /\ ~InSteps("fault"))
              => ~InSteps("confirm")
        /\ InSteps("create_resource_group") => InSteps("confirm")
        /\ (pc = "done" /\ exc = "none")
              => <<cfg.cloud, cfg.name>> \in groups

\* C18: update_dns_record run to completion on a record holding {A,B} leaves
\* exactly {new} with remove_old and {A,B,new} without, whatever new is.
C18_DnsRecordAfterUpdate ==
    (flow = "dns" /\ pc = "done" /\ exc = "none") =>
        dns = IF dnsArgs.remove_old THEN {dnsArgs.ip_address}
              ELSE OldDnsIps \cup {dnsArgs.ip_address}

\* remove_old with the new address equal to one the record held
C18_Witness ==
    /\ flow = "dns" /\ pc = "done" /\ exc = "none"
    /\ dnsArgs.remove_old
    /\ dnsArgs.ip_address \in OldDnsIps
    /\ dns = {dnsArgs.ip_address}

\* a configuration the genesis flow must reject: artifact missing (unless
\* --ip-only), node index missing, region not valid for the provider
ConfigError(c) ==
    \/ ~c.artifact /\ ~c.ip_only
    \/ c.node = NoNode
    \/ c.region = "invalid"

\* C19: with a configuration error the genesis flow makes no cloud call (no
\* resource-group check or creation, no IP allocation, no DNS change) and
\* leaves the backend as it was.
C19_ConfigErrorsFailFast ==
    (flow = "genesis" /\ ConfigError(cfg)) =>
        /\ steps = <<>>
        /\ pc \in {"g_parse", "g_args", "done"}
        /\ pc = "done" => exc = "ValueError"

C22_EarlyExitFailsHandshake ==
    /\ [][(pc = "wait" /\ proc # "running" /\ pc' # "wait")
             => (exc' = "RuntimeError" /\ failedAt' = "wait"
                    /\ pc' = "start_finally")]_vars
    /\ [](failedAt = "wait" =>
             /\ exc = "RuntimeError"
             /\ probe = "none"
             /\ ~markerRead
             /\ startTime = 0
             /\ startRet # "True"
             /\ (pc = "done" => ret = "1" /\ startRet = "raised"))

\* the proxy exited in the window and cli.main has returned 1
C22_Witness ==
    /\ failedAt = "wait" /\ pc = "done" /\ ret = "1"
    /\ proc = "exited" /\ now < GRACE_WINDOW

\* C23: the GCP name sanitizer is idempotent on disk names: for every VM
\* name and artifact name, sanitizing the sanitized raw disk name gives the
\* sanitized name again.
C23_SanitizeIdempotent ==
    san.stage = "twice" => san.twice = san.once

\* a raw name longer than the limit, starting with a digit and ending in a
\* separator, was sanitized twice; the first call changed it
C23_Witness ==
    /\ san.stage = "twice"
    /\ Len(san.raw) > GCP_NAME_MAX
    /\ san.raw[1] = "7"
    /\ san.raw[Len(san.raw)] = "."
    /\ san.once # san.raw
    /\ Len(san.once) = GCP_NAME_MAX

\* C24: within each binding one disk name serves every operation: the name
\* disk_exists checks and create_disk creates and returns (get_disk_name),
\* the name deploy_image hands to create_vm, and the name delete_disk
\* deletes are equal for every VM name and artifact; on GCP it is the
\* sanitized name everywhere, never the raw one.
C24_OneDiskNamePerBinding ==
    /\ \A c \in Clouds, n \in Names :
         /\ DeleteDiskName(c, n, Artifact) = GetDiskName(c, n, Artifact)
         /\ c = GCP =>
              GetDiskName(c, n, Artifact)
                  = SanitizeGcpName(GetRawDiskName(n, Artifact))
    /\ \A d \in disks :
         \E n \in Names : d[2] = GetDiskName(d[1], n, Artifact)
    /\ \A v \in vms : v.disk = GetDiskName(v.cloud, v.name, Artifact)
    /\ pc \in {"di_upload", "up_copy", "up_revoke", "di_nsg", "di_rules",
               "di_create_vm", "di_get_ip"} =>
         diskName = GetDiskName(cfg.cloud, cfg.name, Artifact)
    /\ (pc = "bd_remove_meta" /\ cfg.cloud = AZURE) =>
         <<cfg.cloud, GetDiskName(cfg.cloud, cfg.name, Artifact)>>
             \notin disks

\* a GCP VM runs on the disk created under the sanitized name, and a delete
\* on Azure has removed the disk that the deployment created
C24_Witness ==
    /\ \E v \in vms :
         /\ v.cloud = GCP
         /\ v.disk = SanitizeGcpName(GetRawDiskName(v.name, Artifact))
         /\ <<GCP, v.disk>> \in disks
    /\ cfg.cloud = AZURE /\ pc = "bd_remove_meta"
    /\ <<AZURE, cfg.name>> \in everCreated
    /\ InSteps("delete_disk")

\* file m2 holds, apart from the entry of (cloud, name), what file m1 holds:
\* the same records under every other key and the same artifacts
SameElsewhere(m1, m2, cloud, name) ==
    /\ m2.artifacts = m1.artifacts
    /\ \A k \in Keys :
         k # <<cloud, name>> =>
           /\ HasRecord(m2, k[1], k[2]) <=> HasRecord(m1, k[1], k[2])
           /\ HasRecord(m1, k[1], k[2]) =>
                RecordOf(m2, k[1], k[2]) = RecordOf(m1, k[1], k[2])

\* invocation p completes its write_metadata in this step
Writes(p) == metaOps[p].pc = "write" /\ metaOps'[p].pc = "done"

\* C25: a metadata mutation touches only the addressed (provider, vmName)
\* entry: update_deploy_metadata sets resources[provider][vmName], creating
\* the provider partition if absent, remove_vm_from_metadata removes exactly
\* resources[cloud][name]; every other entry, the same name under the other
\* provider and the artifacts mapping included, is as it was loaded; removing
\* a VM that is not present returns without a file write.
C25_MutationTouchesOneEntry ==
    [][\A p \in Invocations :
         LET o == metaOps[p]
         IN  /\ Writes(p) =>
                  /\ SameElsewhere(o.local, metaFile', o.cloud, o.name)
                  /\ ~o.overlapped =>
                       SameElsewhere(metaFile, metaFile', o.cloud, o.name)
                  /\ o.op = "update" =>
                       /\ o.cloud \in DOMAIN metaFile'.resources
                       /\ HasRecord(metaFile', o.cloud, o.name)
                       /\ RecordOf(metaFile', o.cloud, o.name)
                            = Record(o.cloud, o.name, Artifact, o.ip)
                  /\ o.op = "remove" =>
                       /\ HasRecord(o.local, o.cloud, o.name)
                       /\ ~HasRecord(metaFile', o.cloud, o.name)
             /\ (o.pc = "load" /\ o.op = "remove" /\ metaOps'[p].pc # "load"
                   /\ ~HasRecord(metaFile, o.cloud, o.name)) =>
                  /\ metaOps'[p].pc = "done"
                  /\ ~metaOps'[p].wrote
                  /\ metaFile' = metaFile]_vars

\* an update created the missing partition of its provider and left the
\* record of the same VM name under the other provider and the artifacts
\* as they were
C25_Witness ==
    \E p \in Invocations :
        LET o == metaOps[p]
        IN  /\ o.pc = "done" /\ o.wrote /\ o.op = "update"
            /\ o.local.hasResources
            /\ o.cloud \notin DOMAIN o.local.resources
            /\ \E c \in Clouds \ {o.cloud} :
                 /\ HasRecord(o.local, c, o.name)
                 /\ HasRecord(metaFile, c, o.name)
            /\ HasRecord(metaFile, o.cloud, o.name)
            /\ metaFile.artifacts = {Artifact}

\* C29: the metadata file is rewritten wholesale without a lock. When an
\* invocation's load-modify-write did not overlap with another one, its
\* write leaves every record under a different key in the file (no record
\* written by a completed update_deploy_metadata is lost); when two
\* invocations interleave, a record one of them wrote can be missing from
\* the final file (the state of C29_LostUpdate is reachable).
C29_NoLossWithoutOverlap ==
    [][\A p \in Invocations :
         (Writes(p) /\ ~metaOps[p].overlapped) =>
             /\ metaOps[p].local = metaFile
             /\ SameElsewhere(metaFile, metaFile', metaOps[p].cloud,
                              metaOps[p].name)]_vars

\* lost update: both invocations have written, one recorded a deployment,
\* the other changed a different key, nobody removed the record, and the
\* file does not hold it
C29_LostUpdate ==
    \E p \in Invocations, q \in Invocations :
        /\ p # q
        /\ metaOps[p].pc = "done" /\ metaOps[p].wrote
        /\ metaOps[q].pc = "done" /\ metaOps[q].wrote
        /\ metaOps[p].op = "update"
        /\ <<metaOps[q].cloud, metaOps[q].name>>
             # <<metaOps[p].cloud, metaOps[p].name>>
        /\ ~HasRecord(metaFile, metaOps[p].cloud, metaOps[p].name)

\* the first provider partition of file m, in the order of the file, that
\* holds name ("none" when no partition holds it)
FirstPartition(m, name) ==
    LET holding == {i \in DOMAIN m.order : HasRecord(m, m.order[i], name)}
    IN  IF ~m.hasResources \/ holding = {} THEN "none"
        ELSE m.order[CHOOSE i \in holding : \A j \in holding : i <= j]

\* C26: deployment.deploy.delete_vm takes the first partition, in the order
\* of the file, that holds vmName and delegates to the binding of that same
\* provider (the provider named in the record equals the partition it was
\* found in); when no partition holds vmName it returns False with no
\* provider call and no change of the metadata file.
C26_DeleteDelegatesToFoundPartition ==
    /\ [][(flow = "delete" /\ pc = "od_scan" /\ pc' # "od_scan") =>
            IF FirstPartition(metaFile, cfg.name) = "none"
            THEN /\ pc' = "done"
                 /\ ret' = "False"
                 /\ steps' = <<>>
                 /\ UNCHANGED worldVars
            ELSE /\ pc' = "bd_lookup"
                 /\ cfg' = [cloud |-> FirstPartition(metaFile, cfg.name),
                            name |-> cfg.name]]_vars
    /\ [](flow = "delete" /\ pc \in {"bd_confirm", "bd_delete_vm",
                                      "bd_delete_disk", "bd_remove_meta"}
             => cfg.cloud = FirstPartition(metaFile, cfg.name))

\* the name is recorded under both providers, the file lists the GCP
\* partition first, and the GCP binding is at work
C26_Witness ==
    /\ flow = "delete" /\ pc = "bd_delete_vm"
    /\ cfg.cloud = GCP
    /\ metaFile.order = <<GCP, AZURE>>
    /\ HasRecord(metaFile, AZURE, cfg.name)
    /\ HasRecord(metaFile, GCP, cfg.name)

\* the calls deploy_image makes on the binding, in the order of its body
DeployOrder ==
    <<"disk_exists", "create_disk", "upload_disk", "create_nsg",
      "create_standard_nsg_rules", "create_vm", "get_vm_ip">>

\* the same without create_disk (the disk exists)
DeployOrderReuse ==
    <<"disk_exists", "upload_disk", "create_nsg",
      "create_standard_nsg_rules", "create_vm", "get_vm_ip">>

InDeployOrder(x) == InSeq(x, DeployOrder)

\* the calls of deploy_image made so far by the running invocation
DeployCalls == SelectSeq(steps, InDeployOrder)

\* the call of deploy_image inside which the step "at" raises
CallOf(at) == IF at \in {"grant", "copy", "revoke"} THEN "upload_disk" ELSE at

\* C27: deploy_image runs its steps in one fixed order: the image-file check
\* (FileNotFoundError before any provider call), disk_exists, create_disk
\* (only after disk_exists answered False), upload_disk, create_nsg,
\* create_standard_nsg_rules, create_vm, get_vm_ip; a step that raises is
\* the last step that runs, so create_vm is never invoked before the disk
\* steps and the firewall steps have returned.
C27_FixedOrder ==
    flow \in {"main", "genesis"} =>
        /\ IsPrefix(DeployCalls, DeployOrder)
             \/ IsPrefix(DeployCalls, DeployOrderReuse)
        /\ failedAt = "image_path" => (steps = <<>> /\ pc \notin DeployPcs)
        /\ (failedAt # "none" /\ InDeployOrder(CallOf(failedAt))) =>
             /\ DeployCalls # <<>>
             /\ DeployCalls[Len(DeployCalls)] = CallOf(failedAt)
             /\ steps[Len(steps)] = failedAt
             /\ pc \notin DeployPcs
        /\ InSteps("create_vm") =>
             /\ InSteps("disk_exists") /\ failedAt # "disk_exists"
             /\ InSteps("upload_disk") /\ InSteps("create_nsg")
             /\ InSteps("create_standard_nsg_rules")
             /\ failedAt \notin {"create_disk", "grant", "copy", "revoke",
                                 "create_nsg", "create_standard_nsg_rules"}

\* the rules step raised after a disk was created and uploaded: create_vm
\* and get_vm_ip never ran
C27_Witness ==
    /\ flow = "main" /\ pc = "done"
    /\ failedAt = "create_standard_nsg_rules"
    /\ DeployCalls = <<"disk_exists", "create_disk", "upload_disk",
                       "create_nsg", "create_standard_nsg_rules">>
    /\ ~VmExists(cfg.cloud, cfg.name)

\* C28: in deploy_image the upload belongs to the branch "disk absent":
\* upload_disk is invoked only in an invocation that created the disk; when
\* disk_exists returned true the disk is reused with no write-access grant
\* and no upload.
C28_UploadOnlyAfterCreate ==
    flow \in {"main", "genesis"} =>
        /\ InSteps("upload_disk") => InSteps("create_disk")
        /\ ReusedDisk => (~InSteps("grant") /\ ~InSteps("copy")
                            /\ writable = {})

\* C30: the probe thread never outlives the handshake: once ProxyClient.start
\* has returned or raised after the probe thread was started, the probe
\* thread has finished.
C30_ProbeEndsWithHandshake ==
    (flow = "main" /\ pc \in {"main_finally", "done"} /\ probe # "none")
        => ProbeFinished(probe)

=============================================================================
